---- MODULE Spec2Model ----
(***************************************************************************)
(* A model of the binary patricia merkle trie of storage/merkle/tree.go:   *)
(* the trie (Put, Get, Del, Hash), its inclusion proofs (Prove) and their  *)
(* verifier (Proof.Verify).  Keys, values and short-node paths are byte    *)
(* sequences, read and written one bit at a time as the code does.         *)
(***************************************************************************)
EXTENDS Integers, Sequences, FiniteSets

VARIABLES
    keyLength,   \* Tree.keyLength; 0 while no tree has been constructed
    root,        \* Tree.root, a node (Nil for the empty trie)
    stored,      \* per key, what the calls made so far say it holds
    puts,        \* the Puts made to a fresh trie, in order (recorded by SpecPuts)
    proof,       \* a Proof handed to Verify (drawn by SpecVerify)
    expected,    \* the expectedRootHash handed to Verify
    verdict,     \* what Verify did with (proof, expected)
    held,        \* the value slice the caller holds (SpecBuf)
    walk,        \* the calls in flight, each at its place in its loop (SpecWalk)
    segment      \* a short node's count and its two-byte encoding (SpecEnc)

vars == <<keyLength, root, stored, puts, proof, expected, verdict, held, walk, segment>>

\* The variables of the specifications other than Spec, SpecPuts and SpecVerify.
others == <<held, walk, segment>>

----------------------------------------------------------------------------
(* Bounds and inputs *)

\* How many keys of the pool the calls draw from, for keys of up to two bytes.
NumKeys == 4

\* How many keys of the pool the calls draw from, for longer keys.
NumLongKeys == 2

\* The largest number of Puts SpecPuts records.
MaxPuts == 3

maxKeyLength == 8192

\* The key lengths (in bytes) NewTree is called with: two it refuses, the two
\* smallest, and one whose keys are longer than 255 bits.
KeyLengthInputs == {0, 1, 2, 33, maxKeyLength + 1}

\* The last byte of the i-th key; the bytes before it are zero.
KeyBytePool == <<0, 128, 64, 3, 255, 170, 1>>

KeyOf(kl, i) == [j \in 1..kl |-> IF j = kl THEN KeyBytePool[i] ELSE 0]

KeyCount(kl) == IF kl > 2 THEN NumLongKeys ELSE NumKeys

Keys(kl) == { KeyOf(kl, i) : i \in 1..KeyCount(kl) }

\* Keys of a length the tree is not configured for: every key of the pool
\* without its last byte, and with one more byte.
WrongKeys(kl) ==
    { SubSeq(k, 1, kl - 1) : k \in Keys(kl) } \cup { Append(k, 0) : k \in Keys(kl) }

\* The values: "p" and "q".
Vals == { <<112>>, <<113>> }

----------------------------------------------------------------------------
(* bitutils: bit i of a byte sequence, bit 0 the most significant of byte 0 *)

Pow2(n) == <<1, 2, 4, 8, 16, 32, 64, 128>>[n + 1]

\* The bit read where the index is outside the buffer: the read panics.
OutOfRange == 2

ReadBit(b, idx) ==
    IF idx < 0 \/ (idx \div 8) >= Len(b)
    THEN OutOfRange
    ELSE (b[(idx \div 8) + 1] \div Pow2(7 - (idx % 8))) % 2

SetBit(b, i) ==
    IF ReadBit(b, i) = 0
    THEN [b EXCEPT ![(i \div 8) + 1] = @ + Pow2(7 - (i % 8))]
    ELSE b

ClearBit(b, i) ==
    IF ReadBit(b, i) = 1
    THEN [b EXCEPT ![(i \div 8) + 1] = @ - Pow2(7 - (i % 8))]
    ELSE b

MakeBitVector(bitCount) == [j \in 1..((bitCount + 7) \div 8) |-> 0]

----------------------------------------------------------------------------
(* The node variants *)

Nil == [type |-> "nil"]

Leaf(v) == [type |-> "leaf", val |-> v]

Short(c, p, ch) == [type |-> "short", count |-> c, path |-> p, child |-> ch]

Full(l, r) == [type |-> "full", left |-> l, right |-> r]

Dummy == [type |-> "dummy"]

----------------------------------------------------------------------------
(* Hashing.  A digest is the term <<tag, inputs written>>: two digests are *)
(* equal exactly when tag and inputs are, as for a collision-free hash.    *)

\* The encoding that keeps the low byte only.
serializedPathSegmentLengthLowByte(l) == << 0, l % 256 >>

\* The two bytes written for a short node's count.
serializedPathSegmentLength(l) == << (l \div 256) % 256, l % 256 >>

RECURSIVE NodeHash(_)
NodeHash(n) ==
    CASE n.type = "leaf"  -> <<"leaf", n.val>>
      [] n.type = "short" ->
            <<"short", serializedPathSegmentLength(n.count), n.path, NodeHash(n.child)>>
      [] n.type = "full"  -> <<"full", NodeHash(n.left), NodeHash(n.right)>>

\* Hash that gives the empty trie a digest.
HashOfEmptyTrie(t) == IF t.type = "nil" THEN <<"nil">> ELSE NodeHash(t)

\* Tree.Hash
Hash(t) == IF t.type = "nil" THEN <<>> ELSE NodeHash(t)

----------------------------------------------------------------------------
(* Tree.unsafePut *)

\* The bits of byte j (from 1) of a bit vector of n bits that holds bits
\* off .. off+n-1 of src: bit i of the vector is ReadBit(src, i + off).
ByteOfBits(src, off, n, j) ==
    LET base == 8 * (j - 1)
        BitAt(b) == IF base + b < n THEN ReadBit(src, off + base + b) * Pow2(7 - b) ELSE 0
    IN  BitAt(0) + BitAt(1) + BitAt(2) + BitAt(3) + BitAt(4) + BitAt(5) + BitAt(6) + BitAt(7)

\* The copy that takes the source's bits up to the end of the last byte.
CopyBitsWholeBytes(src, off, n) ==
    [j \in DOMAIN MakeBitVector(n) |-> ByteOfBits(src, off, 8 * Len(MakeBitVector(n)), j)]

\* The copy that reads the source from its first bit.
CopyBitsFromStart(src, off, n) ==
    [j \in DOMAIN MakeBitVector(n) |-> ByteOfBits(src, 0, n, j)]

\* path := MakeBitVector(n); for i := 0; i < n; i++ { WriteBit(path, i, ReadBit(src, i+off)) }
CopyBits(src, off, n) ==
    [j \in DOMAIN MakeBitVector(n) |-> ByteOfBits(src, off, n, j)]

\* The scan of a short node's path against the key from bit `index`: the first
\* i < count at which a read is out of range (the scan panics: -1) or the bits
\* differ (the scan breaks: i), and count when there is none.
CommonCount(key, index, path, count) ==
    LET stops == { i \in 0..(count - 1) : ReadBit(key, i + index) # ReadBit(path, i)
                                           \/ ReadBit(key, i + index) = OutOfRange }
        first == CHOOSE i \in stops : \A j \in stops : i <= j
    IN  IF stops = {} THEN count
        ELSE IF ReadBit(key, first + index) = OutOfRange
                \/ ReadBit(path, first) = OutOfRange THEN -1
        ELSE first

\* RemainNode with the loop that copies the rest of the path left out.
RemainNodeNoCopy(n, commonCount) ==
    LET remainCount == n.count - commonCount - 1
    IN  IF remainCount > 0
        THEN Short(remainCount, MakeBitVector(remainCount), n.child)
        ELSE n.child

\* RemainNode without `if remainCount > 0`.
RemainNodeAlwaysShort(n, commonCount) ==
    LET remainCount == n.count - commonCount - 1
    IN  Short(remainCount, CopyBits(n.path, commonCount + 1, remainCount), n.child)

\* RemainNode that copies the path from the bit the full node decides.
RemainNodeFromBitK(n, commonCount) ==
    LET remainCount == n.count - commonCount - 1
    IN  IF remainCount > 0
        THEN Short(remainCount, CopyBits(n.path, commonCount, remainCount), n.child)
        ELSE n.child

\* What the split of short node n after commonCount shared bits puts on the
\* side of the new full node that the key does not take: the rest of n's path
\* (without the bit the full node decides) over n's child.
RemainNode(n, commonCount) ==
    LET remainCount == n.count - commonCount - 1
        remainPath  == CopyBits(n.path, commonCount + 1, remainCount)
    IN  IF remainCount > 0
        THEN Short(remainCount, remainPath, n.child)
        ELSE n.child

\* One pass of PutLoop with *cur = n: what the slot holds afterwards, whether a
\* value was overwritten, and whether a read went out of range.
RECURSIVE PutLoop(_, _, _, _)
PutLoop(n, key, val, index) ==
    CASE n.type = "full" ->
            LET bit == ReadBit(key, index)
            IN  IF bit = OutOfRange
                THEN [node |-> n, replaced |-> FALSE, panic |-> TRUE]
                ELSE IF bit = 0
                THEN LET r == PutLoop(n.left, key, val, index + 1)
                     IN  [r EXCEPT !.node = [n EXCEPT !.left = r.node]]
                ELSE LET r == PutLoop(n.right, key, val, index + 1)
                     IN  [r EXCEPT !.node = [n EXCEPT !.right = r.node]]
      [] n.type = "short" ->
            LET commonCount == CommonCount(key, index, n.path, n.count)
            IN  IF commonCount < 0
                THEN [node |-> n, replaced |-> FALSE, panic |-> TRUE]
                ELSE IF commonCount = n.count
                THEN LET r == PutLoop(n.child, key, val, index + commonCount)
                     IN  [r EXCEPT !.node = [n EXCEPT !.child = r.node]]
                ELSE
                LET commonPath  == CopyBits(key, index, commonCount)
                    remain      == RemainNode(n, commonCount)
                    r           == PutLoop(Nil, key, val, index + commonCount + 1)
                    splitNode   == IF ReadBit(n.path, commonCount) = 1
                                   THEN Full(r.node, remain)
                                   ELSE Full(remain, r.node)
                IN  [r EXCEPT !.node = IF commonCount > 0
                                       THEN Short(commonCount, commonPath, splitNode)
                                       ELSE splitNode]
      [] n.type = "leaf" ->
            [node |-> Leaf(val), replaced |-> TRUE, panic |-> FALSE]
      [] n.type = "nil" ->
            LET totalCount == Len(key) * 8
                finalCount == totalCount - index
                finalPath  == CopyBits(key, index, finalCount)
            IN  IF index = totalCount
                THEN [node |-> Leaf(val), replaced |-> FALSE, panic |-> FALSE]
                ELSE LET r == PutLoop(Nil, key, val, index + finalCount)
                     IN  [r EXCEPT !.node = Short(finalCount, finalPath, r.node)]

\* unsafePut that reports no overwrite.
unsafePutNeverReplaced(t, key, val) == [PutLoop(t, key, val, 0) EXCEPT !.replaced = FALSE]

\* unsafePut whose leaf case leaves n.val as it is.
unsafePutKeepsOldValue(t, key, val) ==
    LET r == PutLoop(t, key, val, 0)
    IN  IF r.replaced THEN [r EXCEPT !.node = t] ELSE r

unsafePut(t, key, val) == PutLoop(t, key, val, 0)

ErrorIncompatibleKeyLength == "ErrorIncompatibleKeyLength"

\* The nil error.
NoError == "nil"

\* Put without `if len(key) != t.keyLength`.
PutOfUnchecked(t, kl, key, val) ==
    LET r == unsafePut(t, key, val)
    IN  [node |-> r.node, replaced |-> r.replaced, err |-> NoError, panic |-> r.panic]

\* Tree.Put on a tree of key length kl: the root afterwards and (replaced, err).
PutOf(t, kl, key, val) ==
    IF Len(key) # kl
    THEN [node |-> t, replaced |-> FALSE, err |-> ErrorIncompatibleKeyLength, panic |-> FALSE]
    ELSE LET r == unsafePut(t, key, val)
         IN  [node |-> r.node, replaced |-> r.replaced, err |-> NoError, panic |-> r.panic]

----------------------------------------------------------------------------
(* Tree.Get *)

\* Whether some bit of a short node's path differs from the key's (or a read is
\* out of range): for i := 0; i < n.count; i++ { if ReadBit(key, i+index) != ReadBit(n.path, i) }
\* Get's comparison of the short node's path left out.
GetPathMatchesAlways(key, index, n) == TRUE

GetPathMatches(key, index, n) == CommonCount(key, index, n.path, n.count) = n.count

\* Prove's comparison of the short node's path left out.
ProvePathMatchesAlways(key, index, n) == TRUE

ProvePathMatches(key, index, n) == CommonCount(key, index, n.path, n.count) = n.count

\* Del's comparison of the short node's path left out.
DelPathMatchesAlways(key, index, n) == TRUE

DelPathMatches(key, index, n) == CommonCount(key, index, n.path, n.count) = n.count

PathPanics(key, index, n) == CommonCount(key, index, n.path, n.count) < 0

\* One pass of GetLoop with *cur = n.
RECURSIVE GetLoop(_, _, _)
GetLoop(n, key, index) ==
    CASE n.type = "full" ->
            LET bit == ReadBit(key, index)
            IN  IF bit = OutOfRange THEN [val |-> <<>>, found |-> FALSE, panic |-> TRUE]
                ELSE IF bit = 0 THEN GetLoop(n.left, key, index + 1)
                ELSE GetLoop(n.right, key, index + 1)
      [] n.type = "short" ->
            IF PathPanics(key, index, n) THEN [val |-> <<>>, found |-> FALSE, panic |-> TRUE]
            ELSE IF ~GetPathMatches(key, index, n)
            THEN [val |-> <<>>, found |-> FALSE, panic |-> FALSE]
            ELSE GetLoop(n.child, key, index + n.count)
      [] n.type = "leaf" -> [val |-> n.val, found |-> TRUE, panic |-> FALSE]
      [] n.type = "nil"  -> [val |-> <<>>, found |-> FALSE, panic |-> FALSE]

unsafeGet(t, key) == GetLoop(t, key, 0)

\* Get without `t.keyLength != len(key)`.
GetNoLengthCheck(t, kl, key) ==
    IF t.type = "nil"
    THEN [val |-> <<>>, found |-> FALSE, panic |-> FALSE]
    ELSE unsafeGet(t, key)

\* Tree.Get on a tree of key length kl
Get(t, kl, key) ==
    IF t.type = "nil" \/ kl # Len(key)
    THEN [val |-> <<>>, found |-> FALSE, panic |-> FALSE]
    ELSE unsafeGet(t, key)

----------------------------------------------------------------------------
(* Tree.unsafeDel.  A pointer to a node slot is the sequence of fields that  *)
(* lead to it from Tree.root; DummyPtr points at the local dummy node.       *)

DummyPtr == <<"dummy">>

\* *ptr
RECURSIVE Deref(_, _)
Deref(t, ptr) ==
    IF ptr = DummyPtr THEN Dummy
    ELSE IF ptr = <<>> THEN t
    ELSE Deref(t[Head(ptr)], Tail(ptr))

\* *ptr = n
RECURSIVE Assign(_, _, _)
Assign(t, ptr, n) ==
    IF ptr = DummyPtr THEN t
    ELSE IF ptr = <<>> THEN n
    ELSE [t EXCEPT ![Head(ptr)] = Assign(t[Head(ptr)], Tail(ptr), n)]

\* merge without `p.count = totalCount`.
mergeKeepsCount(p, c) ==
    LET totalCount == p.count + c.count
        BitOf(i)   == IF i < p.count THEN ReadBit(p.path, i) ELSE ReadBit(c.path, i - p.count)
        ByteOf(j)  ==
            LET base == 8 * (j - 1)
                B(b) == IF base + b < totalCount THEN BitOf(base + b) * Pow2(7 - b) ELSE 0
            IN  B(0) + B(1) + B(2) + B(3) + B(4) + B(5) + B(6) + B(7)
    IN  Short(p.count, [j \in DOMAIN MakeBitVector(totalCount) |-> ByteOf(j)], c.child)

\* merge without the child's path.
mergeDropsChildPath(p, c) ==
    Short(p.count + c.count,
          [j \in DOMAIN MakeBitVector(p.count + c.count) |-> ByteOfBits(p.path, 0, p.count, j)],
          c.child)

\* merge(p, c): the short node p after the short node c is merged into it.
merge(p, c) ==
    LET totalCount == p.count + c.count
        BitOf(i)   == IF i < p.count THEN ReadBit(p.path, i) ELSE ReadBit(c.path, i - p.count)
        ByteOf(j)  ==
            LET base == 8 * (j - 1)
                B(b) == IF base + b < totalCount THEN BitOf(base + b) * Pow2(7 - b) ELSE 0
            IN  B(0) + B(1) + B(2) + B(3) + B(4) + B(5) + B(6) + B(7)
    IN  Short(totalCount, [j \in DOMAIN MakeBitVector(totalCount) |-> ByteOf(j)], c.child)

\* DelLoop from slot cur: where it ends and the three pointers it kept.
RECURSIVE DelLoop(_, _, _, _, _, _, _)
DelLoop(t, key, cur, index, last, parent, grand) ==
    LET n == Deref(t, cur)
    IN  CASE n.type = "full" ->
                LET bit == ReadBit(key, index)
                IN  IF bit = OutOfRange THEN [found |-> FALSE, panic |-> TRUE]
                    ELSE DelLoop(t, key,
                                 IF bit = 0 THEN Append(cur, "left") ELSE Append(cur, "right"),
                                 index + 1, cur, last, parent)
          [] n.type = "short" ->
                IF PathPanics(key, index, n) THEN [found |-> FALSE, panic |-> TRUE]
                ELSE IF ~DelPathMatches(key, index, n) THEN [found |-> FALSE, panic |-> FALSE]
                ELSE DelLoop(t, key, Append(cur, "child"), index + n.count, cur, last, parent)
          [] n.type = "leaf" ->
                [found |-> TRUE, panic |-> FALSE, cur |-> cur,
                 last |-> last, parent |-> parent, grand |-> grand]
          [] n.type = "nil" -> [found |-> FALSE, panic |-> FALSE]

\* The first step without the removal of the short node above the leaf.
DelClearShortKeeps(t, d) ==
    [tree |-> Assign(t, d.cur, Nil), last |-> d.last, parent |-> d.parent]

\* Cleanup, first step: the leaf's slot is set to nil, and when the last node
\* before the leaf is a short node, that is set to nil too and the pointers move
\* up by one.
DelClearShort(t, d) ==
    LET t1 == Assign(t, d.cur, Nil)
    IN  IF Deref(t1, d.last).type = "short"
        THEN [tree |-> Assign(t1, d.last, Nil), last |-> d.parent, parent |-> d.grand]
        ELSE [tree |-> t1, last |-> d.last, parent |-> d.parent]

\* The short node that replaces the full node f, with a count of two.
DelCollapseTwoBits(f) ==
    LET newPath == MakeBitVector(1)
    IN  IF f.left.type # "nil"
        THEN Short(2, ClearBit(newPath, 0), f.left)
        ELSE Short(2, SetBit(newPath, 0), f.right)

\* The short node that replaces the full node f, with the bit of the child
\* that was removed.
DelCollapseOtherBit(f) ==
    LET newPath == MakeBitVector(1)
    IN  IF f.left.type # "nil"
        THEN Short(1, SetBit(newPath, 0), f.left)
        ELSE Short(1, ClearBit(newPath, 0), f.right)

\* The short node of one bit that replaces the full node f, over f's child that
\* is left.
DelCollapse(f) ==
    LET newPath == MakeBitVector(1)
    IN  IF f.left.type # "nil"
        THEN Short(1, ClearBit(newPath, 0), f.left)
        ELSE Short(1, SetBit(newPath, 0), f.right)

\* The merge with the child left out.
DelMergeChildSkipped(n) == n

\* if the child is also a short node, merge(n, c)
DelMergeChild(n) == IF n.child.type = "short" THEN merge(n, n.child) ELSE n

\* The merge with the parent left out.
DelMergeParentSkipped(t, parent, n) == t

\* if the parent is also a short node, merge(p, n); t holds n at the slot below p
DelMergeParent(t, parent, n) ==
    LET p == Deref(t, parent)
    IN  IF p.type = "short" THEN Assign(t, parent, merge(p, n)) ELSE t

\* The cleanup that leaves the full node above the removed leaf in place.
DelCleanupKeepsFull(t, d) == DelClearShort(t, d).tree

\* The cleanup after DelLoop found the leaf at slot d.cur.
DelCleanup(t, d) ==
    LET c == DelClearShort(t, d)
        f == Deref(c.tree, c.last)
        n == DelMergeChild(DelCollapse(f))
    IN  IF f.type # "full" THEN c.tree
        ELSE DelMergeParent(Assign(c.tree, c.last, n), c.parent, n)

\* unsafeDel that empties the trie when the key is not found.
unsafeDelMissClears(t, key) ==
    LET d == DelLoop(t, key, <<>>, 0, DummyPtr, DummyPtr, DummyPtr)
    IN  IF d.panic THEN [node |-> t, found |-> FALSE, panic |-> TRUE]
        ELSE IF ~d.found THEN [node |-> Nil, found |-> FALSE, panic |-> FALSE]
        ELSE [node |-> DelCleanup(t, d), found |-> TRUE, panic |-> FALSE]

unsafeDel(t, key) ==
    LET d == DelLoop(t, key, <<>>, 0, DummyPtr, DummyPtr, DummyPtr)
    IN  IF d.panic THEN [node |-> t, found |-> FALSE, panic |-> TRUE]
        ELSE IF ~d.found THEN [node |-> t, found |-> FALSE, panic |-> FALSE]
        ELSE [node |-> DelCleanup(t, d), found |-> TRUE, panic |-> FALSE]

\* Tree.Del on a tree of key length kl
DelOf(t, kl, key) ==
    IF t.type = "nil" \/ kl # Len(key)
    THEN [node |-> t, found |-> FALSE, panic |-> FALSE]
    ELSE unsafeDel(t, key)

----------------------------------------------------------------------------
(* Tree.Prove *)

\* uint8(n): the conversion keeps the low 8 bits.
uint8(n) == n % 256

NoProof == [Key |-> <<>>, HashValue |-> <<>>, ShortCounts |-> <<>>, InterimHashes |-> <<>>]

\* One pass of ProveLoop with *cur = n and the transcript gathered so far.
\* neighbour.Hash() on an absent neighbour is a call on a nil interface: a panic.
RECURSIVE ProveLoop(_, _, _, _, _)
ProveLoop(n, key, index, shortCounts, hashValues) ==
    CASE n.type = "full" ->
            LET bit == ReadBit(key, index)
            IN  IF bit = OutOfRange THEN [proof |-> NoProof, found |-> FALSE, panic |-> TRUE]
                ELSE IF (IF bit = 0 THEN n.right ELSE n.left).type = "nil"
                THEN [proof |-> NoProof, found |-> FALSE, panic |-> TRUE]
                ELSE IF bit = 0
                THEN ProveLoop(n.left, key, index + 1, Append(shortCounts, 0),
                               Append(hashValues, NodeHash(n.right)))
                ELSE ProveLoop(n.right, key, index + 1, Append(shortCounts, 0),
                               Append(hashValues, NodeHash(n.left)))
      [] n.type = "short" ->
            IF PathPanics(key, index, n) THEN [proof |-> NoProof, found |-> FALSE, panic |-> TRUE]
            ELSE IF ~ProvePathMatches(key, index, n)
            THEN [proof |-> NoProof, found |-> FALSE, panic |-> FALSE]
            ELSE ProveLoop(n.child, key, index + n.count,
                           Append(shortCounts, uint8(n.count)), hashValues)
      [] n.type = "leaf" ->
            [proof |-> [Key |-> key, HashValue |-> NodeHash(n),
                        ShortCounts |-> shortCounts, InterimHashes |-> hashValues],
             found |-> TRUE, panic |-> FALSE]
      [] n.type = "nil" -> [proof |-> NoProof, found |-> FALSE, panic |-> FALSE]

\* Tree.Prove on a tree of key length kl.  Before the loop the code reads bits
\* 0 .. kl-1 of the key into a scratch vector.
Prove(t, kl, key) ==
    IF \E i \in 0..(kl - 1) : ReadBit(key, i) = OutOfRange
    THEN [proof |-> NoProof, found |-> FALSE, panic |-> TRUE]
    ELSE ProveLoop(t, key, 0, <<>>, <<>>)

----------------------------------------------------------------------------
(* Proof.Verify *)

\* pathIndex := len(p.InterimHashes); for _, sc := range p.ShortCounts { pathIndex += int(sc) }
RECURSIVE SumCounts(_)
SumCounts(counts) == IF counts = <<>> THEN 0 ELSE Head(counts) + SumCounts(Tail(counts))

\* The loop of Verify from entry i (from 1) of ShortCounts down to the first.
RECURSIVE VerifyLoop(_, _, _, _, _)
VerifyLoop(p, i, currentHash, hashIndex, pathIndex) ==
    IF i < 1 THEN [currentHash |-> currentHash, pathIndex |-> pathIndex, panic |-> FALSE]
    ELSE
    LET shortCounts == p.ShortCounts[i]
    IN  IF shortCounts = 0
        THEN IF hashIndex < 1 \/ hashIndex > Len(p.InterimHashes)
             THEN [currentHash |-> currentHash, pathIndex |-> pathIndex, panic |-> TRUE]
             ELSE LET neighbour == p.InterimHashes[hashIndex]
                      bit       == ReadBit(p.Key, pathIndex - 1)
                  IN  IF bit = OutOfRange
                      THEN [currentHash |-> currentHash, pathIndex |-> pathIndex, panic |-> TRUE]
                      ELSE VerifyLoop(p, i - 1,
                                      IF bit = 1 THEN <<"full", neighbour, currentHash>>
                                                 ELSE <<"full", currentHash, neighbour>>,
                                      hashIndex - 1, pathIndex - 1)
        ELSE LET index == pathIndex - shortCounts
             IN  IF \E j \in 0..(shortCounts - 1) : ReadBit(p.Key, index + j) = OutOfRange
                 THEN [currentHash |-> currentHash, pathIndex |-> pathIndex, panic |-> TRUE]
                 ELSE VerifyLoop(p, i - 1,
                                 <<"short", serializedPathSegmentLength(shortCounts),
                                   CopyBits(p.Key, index, shortCounts), currentHash>>,
                                 hashIndex, index)

\* Verify without `pathIndex != 0`.
VerifyIgnoresPathIndex(p, expectedRootHash) ==
    LET r == VerifyLoop(p, Len(p.ShortCounts), p.HashValue, Len(p.InterimHashes),
                        Len(p.InterimHashes) + SumCounts(p.ShortCounts))
    IN  IF r.panic THEN [ok |-> FALSE, panic |-> TRUE]
        ELSE IF r.currentHash # expectedRootHash
        THEN [ok |-> FALSE, panic |-> FALSE]
        ELSE [ok |-> TRUE, panic |-> FALSE]

\* Proof.Verify(expectedRootHash): ok is the value returned, panic whether the
\* call panicked instead of returning.
Verify(p, expectedRootHash) ==
    LET r == VerifyLoop(p, Len(p.ShortCounts), p.HashValue, Len(p.InterimHashes),
                        Len(p.InterimHashes) + SumCounts(p.ShortCounts))
    IN  IF r.panic THEN [ok |-> FALSE, panic |-> TRUE]
        ELSE IF r.pathIndex # 0 \/ r.currentHash # expectedRootHash
        THEN [ok |-> FALSE, panic |-> FALSE]
        ELSE [ok |-> TRUE, panic |-> FALSE]

----------------------------------------------------------------------------
(* State machine *)

Never == [state |-> "never", val |-> <<>>]

\* The caller holds no slice.
NoSlice == [key |-> <<>>, bytes |-> <<>>, shared |-> FALSE]

\* No call is in flight.
NoWalk == <<>>

\* No count has been encoded.
NoSegment == [count |-> 0, bytes |-> <<>>]

Init ==
    /\ keyLength = 0
    /\ root = Nil
    /\ stored = <<>>
    /\ puts = <<>>
    /\ proof = NoProof
    /\ expected = <<>>
    /\ verdict = "none"
    /\ held = NoSlice
    /\ walk = NoWalk
    /\ segment = NoSegment

\* The nil *Tree.
NoTree == [keyLength |-> 0]

\* NewTree without `maxKeyLength < keyLength`.
NewTreeOfNoUpperBound(kl) ==
    IF kl < 1
    THEN [tree |-> NoTree, err |-> ErrorIncompatibleKeyLength]
    ELSE [tree |-> [keyLength |-> kl, root |-> Nil], err |-> NoError]

\* NewTree(keyLength): the (*Tree, error) returned.
NewTreeOf(kl) ==
    IF kl < 1 \/ maxKeyLength < kl
    THEN [tree |-> NoTree, err |-> ErrorIncompatibleKeyLength]
    ELSE [tree |-> [keyLength |-> kl, root |-> Nil], err |-> NoError]

\* A call of NewTree(kl): the tree returned, when there is one, is the tree the
\* later calls are made on.
NewTree(kl) ==
    /\ keyLength = 0
    /\ LET r == NewTreeOf(kl)
       IN  IF r.err # NoError
           THEN UNCHANGED <<keyLength, root, stored>>
           ELSE /\ keyLength' = r.tree.keyLength
                /\ root' = r.tree.root
                /\ stored' = [k \in Keys(kl) |-> Never]
    /\ UNCHANGED <<puts, proof, expected, verdict, others>>

\* Tree.Put(key, val)
PutStep(key, val) ==
    /\ keyLength > 0
    /\ LET r == PutOf(root, keyLength, key, val)
       IN  /\ ~r.panic
           /\ root' = r.node
           /\ stored' = IF r.err = NoError /\ key \in DOMAIN stored
                        THEN [stored EXCEPT ![key] = [state |-> "put", val |-> val]]
                        ELSE stored
    /\ UNCHANGED <<keyLength, proof, expected, verdict, others>>

Put(key, val) == PutStep(key, val) /\ UNCHANGED puts

Deleted == [state |-> "deleted", val |-> <<>>]

\* Tree.Del(key)
Del(key) ==
    /\ keyLength > 0
    /\ LET r == DelOf(root, keyLength, key)
       IN  /\ ~r.panic
           /\ root' = r.node
    /\ stored' = IF key \in DOMAIN stored
                 THEN [stored EXCEPT ![key] = IF @.state = "never" THEN @ ELSE Deleted]
                 ELSE stored
    /\ UNCHANGED <<keyLength, puts, proof, expected, verdict, others>>

Next ==
    \/ \E kl \in KeyLengthInputs : NewTree(kl)
    \/ \E key \in Keys(keyLength) \cup WrongKeys(keyLength), val \in Vals : Put(key, val)
    \/ \E key \in Keys(keyLength) \cup WrongKeys(keyLength) : Del(key)

Spec == Init /\ [][Next]_vars

----------------------------------------------------------------------------
(* What the calls made so far say the trie holds *)

Present(k) == stored[k].state = "put"

PresentKeys == { k \in DOMAIN stored : Present(k) }

HasTree == keyLength > 0

\* The trie a fresh tree becomes when the pairs held now are put once each, the
\* keys taken in the order `order` (a sequence of pool indices).
RECURSIVE PutHeld(_, _)
PutHeld(t, order) ==
    IF order = <<>> THEN t
    ELSE LET k == KeyOf(keyLength, Head(order))
         IN  PutHeld(IF Present(k) THEN unsafePut(t, k, stored[k].val).node ELSE t,
                     Tail(order))

Ascending == [i \in 1..KeyCount(keyLength) |-> i]

Descending == [i \in 1..KeyCount(keyLength) |-> KeyCount(keyLength) + 1 - i]

----------------------------------------------------------------------------
(* C1: after any sequence of Put and Del on a fresh trie, Get(k) returns     *)
(* (v, true) with v the value of the latest Put(k, v) when no Del(k) came    *)
(* after it, and not-found when k was never put or its latest call is a Del. *)
C1_GetReturnsLatestPut ==
    HasTree =>
        \A k \in Keys(keyLength) :
            LET g == Get(root, keyLength, k)
            IN  /\ ~g.panic
                /\ g.found = Present(k)
                /\ g.found => g.val = stored[k].val

C1_Witness ==
    /\ HasTree
    /\ \E k1, k2, k3 \in Keys(keyLength) :
        /\ stored[k1].state = "put" /\ Get(root, keyLength, k1).val = stored[k1].val
        /\ stored[k2].state = "deleted" /\ ~Get(root, keyLength, k2).found
        /\ stored[k3].state = "never" /\ ~Get(root, keyLength, k3).found

(* C2: the trie reached by any sequence of Put and Del is, node for node, the *)
(* trie a fresh tree of that key length becomes when only the pairs held now  *)
(* are put, in one order of the keys or in the opposite order, and has its    *)
(* root hash; so two tries that hold the same pairs are structurally equal.   *)
C2_CanonicalForm ==
    HasTree =>
        /\ root = PutHeld(Nil, Ascending)
        /\ root = PutHeld(Nil, Descending)
        /\ Hash(root) = Hash(PutHeld(Nil, Ascending))
        /\ Hash(root) = Hash(PutHeld(Nil, Descending))

C2_Witness ==
    /\ HasTree
    /\ Cardinality(PresentKeys) >= 2
    /\ \E k \in Keys(keyLength) : stored[k].state = "deleted"
    /\ root = PutHeld(Nil, Descending)

(* C4: after any sequence of Put and Del no short node has a short child, no  *)
(* short node has an absent child and no full node has an absent child.       *)
RECURSIVE WellMerged(_)
WellMerged(n) ==
    CASE n.type = "short" ->
            /\ n.child.type # "short"
            /\ n.child.type # "nil"
            /\ WellMerged(n.child)
      [] n.type = "full" ->
            /\ n.left.type # "nil"
            /\ n.right.type # "nil"
            /\ WellMerged(n.left)
            /\ WellMerged(n.right)
      [] OTHER -> TRUE

C4_MergeDiscipline == WellMerged(root)

C4_Witness ==
    /\ HasTree
    /\ \E k \in Keys(keyLength) : stored[k].state = "deleted"
    /\ Cardinality(PresentKeys) = 1
    /\ root.type = "short" /\ root.count = 8 * keyLength

(* C5: in a non-empty trie every path from the root consumes exactly          *)
(* 8*keyLength key bits (one per full node, count per short node) and then    *)
(* reaches a leaf.                                                            *)
RECURSIVE LeavesAtDepth(_, _, _)
LeavesAtDepth(n, consumed, total) ==
    CASE n.type = "leaf"  -> consumed = total
      [] n.type = "short" -> LeavesAtDepth(n.child, consumed + n.count, total)
      [] n.type = "full"  -> /\ LeavesAtDepth(n.left, consumed + 1, total)
                             /\ LeavesAtDepth(n.right, consumed + 1, total)
      [] OTHER -> FALSE

C5_LeafDepth == root.type # "nil" => LeavesAtDepth(root, 0, 8 * keyLength)

C5_Witness ==
    /\ Cardinality(PresentKeys) >= 3
    /\ \E k \in Keys(keyLength) : stored[k].state = "deleted"
    /\ LeavesAtDepth(root, 0, 8 * keyLength)

(* C6: once every key that was put has been deleted, in whatever order, the   *)
(* trie is empty: the root is nil and Hash() is the zero-length byte string.  *)
C6_DelInverse ==
    (HasTree /\ PresentKeys = {}) => (root = Nil /\ Hash(root) = <<>>)

C6_Witness ==
    /\ HasTree
    /\ \A k \in Keys(keyLength) : stored[k].state = "deleted"
    /\ root = Nil

(* C7: for every key present, Prove(key) returns (proof, true) and            *)
(* proof.Verify(tree.Hash()) returns true.                                    *)
C7_ProofSound ==
    HasTree =>
        \A k \in PresentKeys :
            LET pr == Prove(root, keyLength, k)
            IN  /\ pr.found
                /\ Verify(pr.proof, Hash(root)) = [ok |-> TRUE, panic |-> FALSE]

(* C10: for every key of the configured length that the trie does not hold    *)
(* (any key, on an empty trie), Prove(key) returns (nil, false).              *)
C10_ProveAbsent ==
    HasTree =>
        \A k \in Keys(keyLength) \ PresentKeys :
            Prove(root, keyLength, k) = [proof |-> NoProof, found |-> FALSE, panic |-> FALSE]

C10_Witness ==
    /\ HasTree
    /\ root.type = "short"
    /\ \E k \in Keys(keyLength) \ PresentKeys : ~Prove(root, keyLength, k).found

(* C9: for a present key and the proof Prove returns, flipping one bit of     *)
(* HashValue, of an InterimHashes entry, of a ShortCounts entry or of the     *)
(* expected root makes Verify return false.                                   *)

\* A digest with bit b flipped: a digest of nothing the trie hashes.
FlippedHash(h, b) == <<"flipped", h, b>>

\* The bits of a digest that are flipped: the first and the last.
HashBits == {0, 255}

\* A uint8 with bit b (0 the least significant) flipped.
FlippedCount(n, b) == IF (n \div Pow2(b)) % 2 = 1 THEN n - Pow2(b) ELSE n + Pow2(b)

Rejected == [ok |-> FALSE, panic |-> FALSE]

\* Verify's results on every one-bit tampering of proof p checked against rootHash.
TamperResults(p, rootHash) ==
    { Verify([p EXCEPT !.HashValue = FlippedHash(@, b)], rootHash) : b \in HashBits }
    \cup { Verify([p EXCEPT !.InterimHashes[i] = FlippedHash(@, b)], rootHash) :
             i \in DOMAIN p.InterimHashes, b \in HashBits }
    \cup { Verify([p EXCEPT !.ShortCounts[i] = FlippedCount(@, b)], rootHash) :
             i \in DOMAIN p.ShortCounts, b \in 0..7 }
    \cup { Verify(p, FlippedHash(rootHash, b)) : b \in HashBits }

C9_TamperedProofRejected ==
    HasTree =>
        \A k \in PresentKeys :
            TamperResults(Prove(root, keyLength, k).proof, Hash(root)) \subseteq {Rejected}

----------------------------------------------------------------------------
(* Wrong-length keys, return values and failure modes *)

(* C11: Prove called with a key shorter or longer than keyLength, on an empty *)
(* or non-empty trie, does not panic and returns found = false.               *)
C11_ProveWrongLengthNotFound ==
    HasTree =>
        \A k \in WrongKeys(keyLength) :
            LET pr == Prove(root, keyLength, k)
            IN  ~pr.panic /\ ~pr.found

(* C12: Get and Del called with a key shorter or longer than keyLength do not *)
(* panic; Get returns (nil, false), Del returns false and the root is the     *)
(* root before the call.                                                      *)
C12_GetDelWrongLength ==
    HasTree =>
        \A k \in WrongKeys(keyLength) :
            /\ Get(root, keyLength, k) = [val |-> <<>>, found |-> FALSE, panic |-> FALSE]
            /\ DelOf(root, keyLength, k) = [node |-> root, found |-> FALSE, panic |-> FALSE]

\* A present key extended by one byte: the walk would end at the key's leaf.
C12_Witness ==
    /\ HasTree
    /\ \E k \in PresentKeys :
        /\ Append(k, 0) \in WrongKeys(keyLength)
        /\ unsafeGet(root, Append(k, 0)).found
        /\ unsafeDel(root, Append(k, 0)).found
        /\ ~Get(root, keyLength, Append(k, 0)).found
        /\ DelOf(root, keyLength, Append(k, 0)).node = root

(* C13: Put with a key shorter or longer than keyLength returns               *)
(* (false, ErrorIncompatibleKeyLength) and leaves root and root hash as they  *)
(* were; Put with a key of length keyLength returns a nil error.              *)
C13_PutWrongLengthRefused ==
    HasTree =>
        /\ \A k \in WrongKeys(keyLength), v \in Vals :
            LET r == PutOf(root, keyLength, k, v)
            IN  /\ r = [node |-> root, replaced |-> FALSE,
                        err |-> ErrorIncompatibleKeyLength, panic |-> FALSE]
                /\ Hash(r.node) = Hash(root)
        /\ \A k \in Keys(keyLength), v \in Vals :
            PutOf(root, keyLength, k, v).err = NoError

\* A present key extended by one byte, with a value other than the one held:
\* the unchecked put would overwrite the key's leaf.
C13_Witness ==
    /\ HasTree
    /\ \E k \in PresentKeys, v \in Vals :
        /\ v # stored[k].val
        /\ unsafePut(root, Append(k, 0), v).node # root
        /\ PutOf(root, keyLength, Append(k, 0), v).node = root
        /\ PutOf(root, keyLength, Append(k, 0), v).err = ErrorIncompatibleKeyLength

\* The key lengths NewTree is checked on: both ends of [1, 8192] and their
\* neighbours outside.
NewTreeInputs == {-1, 0, 1, 2, 33, 8192, 8193}

(* C14: NewTree(keyLength) returns a trie with an absent root and a nil error *)
(* iff 1 <= keyLength <= 8192, and otherwise no trie and                      *)
(* ErrorIncompatibleKeyLength.                                                *)
C14_NewTreeRange ==
    /\ \A kl \in NewTreeInputs :
        NewTreeOf(kl) = IF 1 <= kl /\ kl <= 8192
                        THEN [tree |-> [keyLength |-> kl, root |-> Nil], err |-> NoError]
                        ELSE [tree |-> NoTree, err |-> ErrorIncompatibleKeyLength]
    /\ HasTree => (1 <= keyLength /\ keyLength <= 8192)

C14_Witness ==
    /\ HasTree
    /\ \A k \in Keys(keyLength) : stored[k].state = "never"
    /\ NewTreeOf(keyLength) = [tree |-> [keyLength |-> keyLength, root |-> root],
                               err |-> NoError]
    /\ NewTreeOf(maxKeyLength + 1).err = ErrorIncompatibleKeyLength

(* C15: Put with a key of length keyLength returns replaced = true iff the    *)
(* key is present immediately before the call.                                *)
C15_PutReplacedIffPresent ==
    HasTree =>
        \A k \in Keys(keyLength), v \in Vals :
            PutOf(root, keyLength, k, v).replaced = Present(k)

C15_Witness ==
    /\ HasTree
    /\ \E k1, k2, k3 \in Keys(keyLength), v \in Vals :
        /\ stored[k1].state = "put" /\ PutOf(root, keyLength, k1, v).replaced
        /\ stored[k2].state = "deleted" /\ ~PutOf(root, keyLength, k2, v).replaced
        /\ stored[k3].state = "never" /\ ~PutOf(root, keyLength, k3, v).replaced

(* C16: Del(key) returns true iff the key is present immediately before the   *)
(* call; on the trie a Del that returned true leaves, Get(key) and Prove(key) *)
(* return not-found.                                                          *)
C16_DelFoundIffPresent ==
    HasTree =>
        \A k \in Keys(keyLength) :
            LET r == DelOf(root, keyLength, k)
            IN  /\ ~r.panic
                /\ r.found = Present(k)
                /\ r.found => /\ ~Get(r.node, keyLength, k).found
                              /\ ~Prove(r.node, keyLength, k).found

\* A present key whose removal leaves other keys, and an absent key that shares
\* its first bits with a stored key.
C16_Witness ==
    /\ HasTree
    /\ \E k1, k2 \in Keys(keyLength) :
        /\ Present(k1) /\ DelOf(root, keyLength, k1).found
        /\ DelOf(root, keyLength, k1).node.type # "nil"
        /\ ~Get(DelOf(root, keyLength, k1).node, keyLength, k1).found
        /\ ~Present(k2) /\ ~DelOf(root, keyLength, k2).found
        /\ root.type = "short" /\ CommonCount(k2, 0, root.path, root.count) > 0

(* C17: whenever Del returns false (empty trie, wrong-length key, or a key of *)
(* length keyLength that is not present) the root afterwards is the root      *)
(* before, node for node, and Hash() is unchanged.                            *)
C17_DelMissLeavesTrie ==
    HasTree =>
        \A k \in Keys(keyLength) \cup WrongKeys(keyLength) :
            LET r == DelOf(root, keyLength, k)
            IN  ~r.found => (r.node = root /\ Hash(r.node) = Hash(root))

\* An absent key that matches the first bits of the root's short path and
\* diverges inside it.
C17_Witness ==
    /\ HasTree
    /\ root.type = "short"
    /\ \E k \in Keys(keyLength) \ PresentKeys :
        /\ CommonCount(k, 0, root.path, root.count) > 0
        /\ CommonCount(k, 0, root.path, root.count) < root.count
        /\ ~DelOf(root, keyLength, k).found
        /\ DelOf(root, keyLength, k).node = root

(* C18: Hash() returns the zero-length byte string iff the trie holds no keys *)
(* (fresh, or every key deleted); otherwise it returns the digest of the root *)
(* node.                                                                      *)
C18_HashEmptyIffNoKeys ==
    HasTree =>
        /\ (Hash(root) = <<>>) <=> (PresentKeys = {})
        /\ PresentKeys # {} => Hash(root) = NodeHash(root)

C18_Witness ==
    /\ HasTree
    /\ Cardinality(PresentKeys) = 1
    /\ \E k \in Keys(keyLength) : stored[k].state = "deleted"
    /\ Hash(root) # <<>>
    /\ Hash(DelOf(root, keyLength, CHOOSE k \in PresentKeys : TRUE).node) = <<>>

(* C19: on every trie reachable by Put and Del and for every key of length    *)
(* keyLength, Put, Get, Del and Prove read no key bit and no path bit outside *)
(* its buffer and call no method of an absent child: they do not panic.       *)
C19_NoPanic ==
    HasTree =>
        \A k \in Keys(keyLength) :
            /\ \A v \in Vals : ~PutOf(root, keyLength, k, v).panic
            /\ ~Get(root, keyLength, k).panic
            /\ ~DelOf(root, keyLength, k).panic
            /\ ~Prove(root, keyLength, k).panic

\* A trie with a full node under a short node, some key deleted before.
C19_Witness ==
    /\ HasTree
    /\ root.type = "short" /\ root.child.type = "full"
    /\ \E k \in Keys(keyLength) : stored[k].state = "deleted"
    /\ \E k \in PresentKeys : Prove(root, keyLength, k).found
    /\ \A k \in Keys(keyLength) : ~DelOf(root, keyLength, k).panic

\* The counts of the non-leaf nodes on the walk from n to key's leaf: 0 for a
\* full node, count for a short node.
RECURSIVE PathCounts(_, _, _)
PathCounts(n, key, index) ==
    CASE n.type = "full" ->
            <<0>> \o PathCounts(IF ReadBit(key, index) = 0 THEN n.left ELSE n.right,
                                key, index + 1)
      [] n.type = "short" -> <<n.count>> \o PathCounts(n.child, key, index + n.count)
      [] OTHER -> <<>>

(* C20: in the proof Prove returns for a present key, ShortCounts has one     *)
(* entry per non-leaf node from root to leaf, in that order: 0 for a full     *)
(* node, and the node's count (never 0) for a short node.                     *)
C20_ShortCountsAreNodeCounts ==
    HasTree =>
        \A k \in PresentKeys :
            Prove(root, keyLength, k).proof.ShortCounts = PathCounts(root, k, 0)

----------------------------------------------------------------------------
(* The shape of the proofs Prove returns *)

\* The digests of the children not taken at the full nodes on the walk from n
\* to key's leaf, from the root down.
RECURSIVE SiblingHashes(_, _, _)
SiblingHashes(n, key, index) ==
    CASE n.type = "full" ->
            IF ReadBit(key, index) = 0
            THEN <<NodeHash(n.right)>> \o SiblingHashes(n.left, key, index + 1)
            ELSE <<NodeHash(n.left)>> \o SiblingHashes(n.right, key, index + 1)
      [] n.type = "short" -> SiblingHashes(n.child, key, index + n.count)
      [] OTHER -> <<>>

ZeroCount(counts) == Cardinality({ i \in DOMAIN counts : counts[i] = 0 })

(* C21: in the proof Prove returns for a present key, InterimHashes holds the *)
(* digest of the child not taken at each full node traversed, from the root   *)
(* down, and has as many entries as ShortCounts has zeros.                    *)
C21_InterimHashesAreSiblings ==
    HasTree =>
        \A k \in PresentKeys :
            LET p == Prove(root, keyLength, k).proof
            IN  /\ p.InterimHashes = SiblingHashes(root, k, 0)
                /\ Len(p.InterimHashes) = ZeroCount(p.ShortCounts)

(* C22: for the proof Prove returns for a present key, the pathIndex Verify   *)
(* starts from, len(InterimHashes) plus the sum of ShortCounts, is            *)
(* 8*keyLength.                                                               *)
C22_PathIndexIsKeyBits ==
    HasTree =>
        \A k \in PresentKeys :
            LET p == Prove(root, keyLength, k).proof
            IN  Len(p.InterimHashes) + SumCounts(p.ShortCounts) = 8 * keyLength

(* C23: when a present key's value is replaced by a different value, the root *)
(* hash changes, the proof Prove returned before the replacement is rejected  *)
(* by Verify against the new root, and is accepted against the old root.      *)
C23_ReplaceInvalidatesProof ==
    HasTree =>
        \A k \in PresentKeys, v \in Vals :
            v # stored[k].val =>
                LET old     == Prove(root, keyLength, k).proof
                    newRoot == PutOf(root, keyLength, k, v).node
                IN  /\ Hash(newRoot) # Hash(root)
                    /\ Verify(old, Hash(newRoot)) = [ok |-> FALSE, panic |-> FALSE]
                    /\ Verify(old, Hash(root)) = [ok |-> TRUE, panic |-> FALSE]

----------------------------------------------------------------------------
(* The short nodes of the trie *)

\* The path buffer of short node n holds count bits and zeros after them.
PathBufferOk(n) ==
    /\ Len(n.path) = (n.count + 7) \div 8
    /\ \A i \in n.count..(8 * Len(n.path) - 1) : ReadBit(n.path, i) = 0

RECURSIVE PathBuffersOk(_)
PathBuffersOk(n) ==
    CASE n.type = "short" -> PathBufferOk(n) /\ PathBuffersOk(n.child)
      [] n.type = "full"  -> PathBuffersOk(n.left) /\ PathBuffersOk(n.right)
      [] OTHER -> TRUE

\* On the walk from n to key's leaf, every short node's path holds the bits of
\* the key at the node's place.
RECURSIVE PathsAreKeyBits(_, _, _)
PathsAreKeyBits(n, key, index) ==
    CASE n.type = "full" ->
            PathsAreKeyBits(IF ReadBit(key, index) = 0 THEN n.left ELSE n.right, key, index + 1)
      [] n.type = "short" ->
            /\ \A i \in 0..(n.count - 1) : ReadBit(n.path, i) = ReadBit(key, index + i)
            /\ PathsAreKeyBits(n.child, key, index + n.count)
      [] OTHER -> TRUE

(* C28: after any sequence of Put and Del every short node's path buffer has  *)
(* ceil(count/8) bytes, its first count bits are the key bits of its segment, *)
(* and the bits of the last byte after them are zero.                         *)
C28_PathBuffers ==
    HasTree =>
        /\ PathBuffersOk(root)
        /\ \A k \in PresentKeys : PathsAreKeyBits(root, k, 0)

\* A short node made by a split under one made by a merge, with counts that do
\* not fill their last byte.
C28_Witness ==
    /\ HasTree
    /\ \E k \in Keys(keyLength) : stored[k].state = "deleted"
    /\ root.type = "short" /\ root.count % 8 # 0
    /\ root.child.type = "full"
    /\ root.child.left.type = "short" /\ root.child.left.count % 8 # 0
    /\ PathBufferOk(root.child.left)

\* Every short node of the subtree n, reached after `consumed` key bits, has a
\* count of at least 1 that ends within the key.
RECURSIVE CountsInRange(_, _, _)
CountsInRange(n, consumed, total) ==
    CASE n.type = "short" ->
            /\ n.count >= 1
            /\ consumed + n.count <= total
            /\ CountsInRange(n.child, consumed + n.count, total)
      [] n.type = "full" ->
            /\ CountsInRange(n.left, consumed + 1, total)
            /\ CountsInRange(n.right, consumed + 1, total)
      [] OTHER -> TRUE

(* C29: after any sequence of Put and Del every short node has count >= 1     *)
(* and count <= 8*keyLength minus the key bits consumed above it.             *)
C29_ShortCountRange == HasTree => CountsInRange(root, 0, 8 * keyLength)

\* After a split at the last bit of a short node's path: the rest of the path
\* is empty and the old child, a full node, hangs from the new full node
\* directly, next to a short node that holds all of the new key but one bit.
C29_Witness ==
    /\ HasTree
    /\ root.type = "full" /\ root.left.type = "full"
    /\ root.right.type = "short" /\ root.right.count = 8 * keyLength - 1
    /\ root.left.left.type = "short" /\ root.left.left.count >= 1

\* The slot that held short node n after the Put of (key, val) that shares k
\* bits, k < n.count, with n's path from bit `index` of the key.
SplitSlot(n, key, val, index, k) ==
    LET total   == 8 * Len(key)
        rest    == total - (index + k + 1)
        newSide == IF rest = 0 THEN Leaf(val)
                   ELSE Short(rest, CopyBits(key, index + k + 1, rest), Leaf(val))
        remain  == n.count - k - 1
        oldSide == IF remain = 0 THEN n.child
                   ELSE Short(remain, CopyBits(n.path, k + 1, remain), n.child)
        fork    == IF ReadBit(key, index + k) = 0
                   THEN Full(newSide, oldSide)
                   ELSE Full(oldSide, newSide)
    IN  IF k > 0 THEN Short(k, CopyBits(n.path, 0, k), fork) ELSE fork

\* Whether the walk of key from n ends in the middle of a short node's path.
RECURSIVE Splits(_, _, _)
Splits(n, key, index) ==
    CASE n.type = "full" ->
            Splits(IF ReadBit(key, index) = 0 THEN n.left ELSE n.right, key, index + 1)
      [] n.type = "short" ->
            IF CommonCount(key, index, n.path, n.count) = n.count
            THEN Splits(n.child, key, index + n.count)
            ELSE TRUE
      [] OTHER -> FALSE

\* The subtree n with the short node where key's walk ends replaced by
\* SplitSlot, and nothing else changed.
RECURSIVE WithSplit(_, _, _, _)
WithSplit(n, key, val, index) ==
    CASE n.type = "full" ->
            IF ReadBit(key, index) = 0
            THEN [n EXCEPT !.left = WithSplit(n.left, key, val, index + 1)]
            ELSE [n EXCEPT !.right = WithSplit(n.right, key, val, index + 1)]
      [] n.type = "short" ->
            IF CommonCount(key, index, n.path, n.count) = n.count
            THEN [n EXCEPT !.child = WithSplit(n.child, key, val, index + n.count)]
            ELSE SplitSlot(n, key, val, index, CommonCount(key, index, n.path, n.count))
      [] OTHER -> n

(* C30: when Put reaches a short node (path p, count c) that shares k < c     *)
(* bits with the rest of the key, the slot afterwards holds a short of count  *)
(* k with p[0..k) if k > 0, over a full node; the full node's branch for the  *)
(* key's bit holds the rest of the key over a new leaf (the leaf itself when  *)
(* no bit is left), the other branch a short of count c-k-1 with p[k+1..c)    *)
(* over the old child (the old child itself when c-k-1 = 0); nothing else     *)
(* changes.                                                                   *)
C30_PutSplit ==
    HasTree =>
        \A k \in Keys(keyLength), v \in Vals :
            Splits(root, k, 0) =>
                PutOf(root, keyLength, k, v).node = WithSplit(root, k, v, 0)

\* A key that leaves the root's short path after some shared bits and before
\* its last bit.
C30_Witness ==
    /\ HasTree
    /\ root.type = "short"
    /\ \E k \in Keys(keyLength), v \in Vals :
        LET cc == CommonCount(k, 0, root.path, root.count)
            r  == PutOf(root, keyLength, k, v).node
        IN  /\ 0 < cc /\ cc < root.count - 1
            /\ r.type = "short" /\ r.count = cc /\ r.child.type = "full"
            /\ r = WithSplit(root, k, v, 0)

----------------------------------------------------------------------------
(* Puts to a fresh trie, recorded in order *)

\* The key length of the trees SpecPuts constructs.
PutsKeyLengths == {1}

PutLogged(key, val) ==
    /\ Len(puts) < MaxPuts
    /\ PutStep(key, val)
    /\ puts' = Append(puts, [key |-> key, val |-> val])

NextPuts ==
    \/ \E kl \in PutsKeyLengths : NewTree(kl)
    \/ \E key \in Keys(keyLength), val \in Vals : PutLogged(key, val)

SpecPuts == Init /\ [][NextPuts]_vars

\* The root after the puts of seq are applied, in order, to a fresh trie.
RECURSIVE PutAll(_, _)
PutAll(t, seq) ==
    IF seq = <<>> THEN t
    ELSE PutAll(unsafePut(t, Head(seq).key, Head(seq).val).node, Tail(seq))

Permutations(n) == { f \in [1..n -> 1..n] : \A i, j \in 1..n : f[i] = f[j] => i = j }

Permuted(seq, f) == [i \in DOMAIN seq |-> seq[f[i]]]

\* The value of the last put of key k in seq (k is put in seq).
LastWrite(seq, k) ==
    LET last == CHOOSE i \in DOMAIN seq :
                    /\ seq[i].key = k
                    /\ \A j \in DOMAIN seq : seq[j].key = k => j <= i
    IN  seq[last].val

SameLastWrites(a, b) ==
    \A i \in DOMAIN a : LastWrite(a, a[i].key) = LastWrite(b, a[i].key)

(* C3 as stated: the puts made to a fresh trie, applied in any other order to *)
(* a fresh trie of the same key length, give the same root hash.              *)
C3_AnyPermutationSameHash ==
    HasTree =>
        \A f \in Permutations(Len(puts)) :
            Hash(PutAll(Nil, Permuted(puts, f))) = Hash(root)

(* C3 as amended: the puts made to a fresh trie, applied to a fresh trie of   *)
(* the same key length in any other order that leaves, for every key, the     *)
(* same value put last, give the same root hash.                              *)
C3_PermutationSameLastWrites ==
    HasTree =>
        \A f \in Permutations(Len(puts)) :
            SameLastWrites(puts, Permuted(puts, f))
                => Hash(PutAll(Nil, Permuted(puts, f))) = Hash(root)

C3_Witness ==
    /\ HasTree
    /\ \E i, j, m \in DOMAIN puts :
        /\ i < j /\ puts[i].key = puts[j].key /\ puts[i].val # puts[j].val
        /\ puts[m].key # puts[i].key
        /\ \E f \in Permutations(Len(puts)) :
            /\ f[1] # 1
            /\ SameLastWrites(puts, Permuted(puts, f))
            /\ Hash(PutAll(Nil, Permuted(puts, f))) = Hash(root)

----------------------------------------------------------------------------
(* Verify on any proof *)

\* The largest number of ShortCounts entries, and of InterimHashes entries, of
\* the proofs handed to Verify.
MaxCounts == 2

SeqsUpTo(S, n) == UNION { [1..m -> S] : m \in 0..n }

\* The digest of the leaf holding "p", and of the leaf holding "q".
LeafP == <<"leaf", <<112>>>>

LeafQ == <<"leaf", <<113>>>>

ProofInputs ==
    [ Key           : { <<>>, <<0>>, <<128>> },
      HashValue     : { LeafP },
      ShortCounts   : SeqsUpTo({0, 1, 8}, MaxCounts),
      InterimHashes : SeqsUpTo({LeafQ}, MaxCounts) ]

\* Expected roots: the empty trie's, and those of the tries {0x00 -> "p"} and
\* {0x00 -> "p", 0x80 -> "q"}.
ExpectedInputs ==
    { <<>>,
      NodeHash(Short(8, <<0>>, Leaf(<<112>>))),
      NodeHash(Full(Short(7, <<0>>, Leaf(<<112>>)), Short(7, <<0>>, Leaf(<<113>>)))) }

InitVerify ==
    /\ keyLength = 0
    /\ root = Nil
    /\ stored = <<>>
    /\ puts = <<>>
    /\ proof \in ProofInputs
    /\ expected \in ExpectedInputs
    /\ verdict = "none"
    /\ held = NoSlice
    /\ walk = NoWalk
    /\ segment = NoSegment

\* proof.Verify(expected)
VerifyCall ==
    /\ verdict = "none"
    /\ LET r == Verify(proof, expected)
       IN  verdict' = IF r.panic THEN "panic" ELSE IF r.ok THEN "true" ELSE "false"
    /\ UNCHANGED <<keyLength, root, stored, puts, proof, expected, others>>

NextVerify == VerifyCall

SpecVerify == InitVerify /\ [][NextVerify]_vars

(* C8: for every Proof value and every expected root, Verify returns a        *)
(* boolean; it does not panic.                                                *)
C8_VerifyNeverPanics == verdict # "panic"

----------------------------------------------------------------------------
(* The caller's buffers.  A slice is its bytes and the array that backs it:  *)
(* a write through one slice shows in every slice of the same array.         *)

\* The key length of the trees SpecBuf constructs.
BufKeyLengths == {1}

\* The slice the caller passes as val, holding bytes b.
CallerSlice(b) == [array |-> "caller", bytes |-> b]

\* The leaf keeping the caller's slice itself.
LeafValAliased(val) == val

\* append(make([]byte, 0, len(val)), val...): the bytes of val in a new array.
LeafVal(val) == [array |-> "leaf", bytes |-> val.bytes]

\* The caller fills a buffer with b and calls Put(key, buffer).
PutFrom(key, b) ==
    /\ keyLength > 0
    /\ LET val == CallerSlice(b)
           r   == PutOf(root, keyLength, key, val.bytes)
       IN  /\ ~r.panic
           /\ root' = r.node
           /\ stored' = IF r.err = NoError /\ key \in DOMAIN stored
                        THEN [stored EXCEPT ![key] = [state |-> "put", val |-> b]]
                        ELSE stored
           /\ held' = [key |-> key, bytes |-> b,
                       shared |-> r.err = NoError /\ LeafVal(val).array = val.array]
    /\ UNCHANGED <<keyLength, puts, proof, expected, verdict, walk, segment>>

\* The caller writes b over the bytes of the slice it holds; the write shows in
\* the leaf when the leaf's value is a slice of the same array.
Overwrite(b) ==
    /\ held # NoSlice
    /\ held.bytes # b
    /\ held' = [held EXCEPT !.bytes = b]
    /\ root' = IF held.shared THEN unsafePut(root, held.key, b).node ELSE root
    /\ UNCHANGED <<keyLength, stored, puts, proof, expected, verdict, walk, segment>>

\* Tree.Del(key); the leaf of a deleted key is no longer part of the trie.
DelBuf(key) ==
    /\ keyLength > 0
    /\ LET r == DelOf(root, keyLength, key)
       IN  /\ ~r.panic
           /\ root' = r.node
           /\ held' = IF r.found /\ held.key = key THEN [held EXCEPT !.shared = FALSE] ELSE held
    /\ stored' = IF key \in DOMAIN stored
                 THEN [stored EXCEPT ![key] = IF @.state = "never" THEN @ ELSE Deleted]
                 ELSE stored
    /\ UNCHANGED <<keyLength, puts, proof, expected, verdict, walk, segment>>

NextBuf ==
    \/ \E kl \in BufKeyLengths : NewTree(kl)
    \/ \E key \in Keys(keyLength), b \in Vals : PutFrom(key, b)
    \/ \E b \in Vals : Overwrite(b)
    \/ \E key \in Keys(keyLength) : DelBuf(key)

SpecBuf == Init /\ [][NextBuf]_vars

(* C24: after Put(key, val) returns, a later write by the caller to the val   *)
(* buffer changes neither the result of Get(key) nor the root hash: Get       *)
(* returns the bytes the buffer held when Put was called, and the root hash   *)
(* is that of the trie holding those bytes.                                   *)
C24_PutStoresCopy ==
    HasTree =>
        /\ \A k \in Keys(keyLength) :
            LET g == Get(root, keyLength, k)
            IN  g.found = Present(k) /\ (g.found => g.val = stored[k].val)
        /\ Hash(root) = Hash(PutHeld(Nil, Ascending))

\* The caller has written other bytes over the buffer it passed to Put.
C24_Witness ==
    /\ HasTree
    /\ held.key \in DOMAIN stored
    /\ Present(held.key)
    /\ held.bytes # stored[held.key].val
    /\ Get(root, keyLength, held.key).val = stored[held.key].val

----------------------------------------------------------------------------
(* Calls in flight.  Each caller runs one call at a time, one pass of the    *)
(* call's loop per step; cur and index are the call's local variables.       *)
(* The trie has no lock: the callers keep Put and Del apart from every other *)
(* call, and let Get, Prove and Hash run together.                           *)

Callers == {"a", "b"}

\* The key length of the trees SpecWalk constructs.
WalkKeyLengths == {1}

\* The keys of the calls: 0x00, 0x80 and 0x03 for one-byte keys.
WalkKeys(kl) == { KeyOf(kl, i) : i \in {1, 2, 4} }

\* The value of the Puts: "p".
WalkVal == <<112>>

Readers == {"Get", "Prove", "Hash"}

Writers == {"Put", "Del"}

Idle ==
    [op |-> "none", key |-> <<>>, state |-> "idle", cur |-> Nil, index |-> 0,
     shortCounts |-> <<>>, hashValues |-> <<>>, result |-> <<>>, root0 |-> Nil,
     rootAfter |-> Nil]

\* The call returns res.
Done(w, res) == [w EXCEPT !.state = "done", !.result = res]

\* cur and index left as they are.
AdvanceStays(w, n, by) == w

\* cur = &n; index += by
Advance(w, n, by) == [w EXCEPT !.cur = n, !.index = @ + by]

\* The code of each call before its loop, on the tree (t, kl).
Entry(w, t, kl) ==
    CASE w.op = "Get" ->
            IF t.type = "nil" \/ kl # Len(w.key)
            THEN Done(w, [val |-> <<>>, found |-> FALSE, panic |-> FALSE])
            ELSE [w EXCEPT !.state = "run", !.cur = t]
      [] w.op = "Del" ->
            IF t.type = "nil" \/ kl # Len(w.key)
            THEN Done(w, [found |-> FALSE, panic |-> FALSE])
            ELSE [w EXCEPT !.state = "run", !.cur = t]
      [] w.op = "Put" ->
            IF Len(w.key) # kl
            THEN Done(w, [replaced |-> FALSE, err |-> ErrorIncompatibleKeyLength,
                          panic |-> FALSE])
            ELSE [w EXCEPT !.state = "run", !.cur = t]
      [] w.op = "Prove" ->
            IF \E i \in 0..(kl - 1) : ReadBit(w.key, i) = OutOfRange
            THEN Done(w, [proof |-> NoProof, found |-> FALSE, panic |-> TRUE])
            ELSE [w EXCEPT !.state = "run", !.cur = t]
      [] w.op = "Hash" ->
            IF t.type = "nil" THEN Done(w, <<>>)
            ELSE [w EXCEPT !.state = "run", !.cur = t]

\* Hash, after it has found the root not nil: the digest of the root.
HashStep(w) == Done(w, NodeHash(w.cur))

\* One pass of GetLoop.
GetLoopStep(w) ==
    LET n == w.cur
    IN  CASE n.type = "full" ->
                IF ReadBit(w.key, w.index) = OutOfRange
                THEN Done(w, [val |-> <<>>, found |-> FALSE, panic |-> TRUE])
                ELSE Advance(w, IF ReadBit(w.key, w.index) = 0 THEN n.left ELSE n.right, 1)
          [] n.type = "short" ->
                IF PathPanics(w.key, w.index, n)
                THEN Done(w, [val |-> <<>>, found |-> FALSE, panic |-> TRUE])
                ELSE IF ~GetPathMatches(w.key, w.index, n)
                THEN Done(w, [val |-> <<>>, found |-> FALSE, panic |-> FALSE])
                ELSE Advance(w, n.child, n.count)
          [] n.type = "leaf" -> Done(w, [val |-> n.val, found |-> TRUE, panic |-> FALSE])
          [] n.type = "nil" -> Done(w, [val |-> <<>>, found |-> FALSE, panic |-> FALSE])

\* One pass of ProveLoop.
ProveLoopStep(w) ==
    LET n    == w.cur
        none == [proof |-> NoProof, found |-> FALSE, panic |-> FALSE]
    IN  CASE n.type = "full" ->
                LET bit       == ReadBit(w.key, w.index)
                    neighbour == IF bit = 0 THEN n.right ELSE n.left
                IN  IF bit = OutOfRange \/ neighbour.type = "nil"
                    THEN Done(w, [none EXCEPT !.panic = TRUE])
                    ELSE [Advance(w, IF bit = 0 THEN n.left ELSE n.right, 1)
                            EXCEPT !.shortCounts = Append(@, 0),
                                   !.hashValues = Append(@, NodeHash(neighbour))]
          [] n.type = "short" ->
                IF PathPanics(w.key, w.index, n) THEN Done(w, [none EXCEPT !.panic = TRUE])
                ELSE IF ~ProvePathMatches(w.key, w.index, n) THEN Done(w, none)
                ELSE [Advance(w, n.child, n.count)
                        EXCEPT !.shortCounts = Append(@, uint8(n.count))]
          [] n.type = "leaf" ->
                Done(w, [proof |-> [Key |-> w.key, HashValue |-> NodeHash(n),
                                    ShortCounts |-> w.shortCounts,
                                    InterimHashes |-> w.hashValues],
                         found |-> TRUE, panic |-> FALSE])
          [] n.type = "nil" -> Done(w, none)

\* One pass of PutLoop.  After a split, and after the short node of the rest
\* of the key is installed, cur points at a slot that holds nil.
PutLoopStep(w) ==
    LET n     == w.cur
        res   == [replaced |-> FALSE, err |-> NoError, panic |-> FALSE]
    IN  CASE n.type = "full" ->
                IF ReadBit(w.key, w.index) = OutOfRange
                THEN Done(w, [res EXCEPT !.panic = TRUE])
                ELSE Advance(w, IF ReadBit(w.key, w.index) = 0 THEN n.left ELSE n.right, 1)
          [] n.type = "short" ->
                LET commonCount == CommonCount(w.key, w.index, n.path, n.count)
                IN  IF commonCount < 0 THEN Done(w, [res EXCEPT !.panic = TRUE])
                    ELSE IF commonCount = n.count THEN Advance(w, n.child, commonCount)
                    ELSE Advance(w, Nil, commonCount + 1)
          [] n.type = "leaf" -> Done(w, [res EXCEPT !.replaced = TRUE])
          [] n.type = "nil" ->
                LET totalCount == Len(w.key) * 8
                IN  IF w.index = totalCount THEN Done(w, res)
                    ELSE Advance(w, Nil, totalCount - w.index)

\* cur as a pointer: the slot that the walk of key from the root t reaches at
\* bit `index` (no other call is in flight while a Put runs).
RECURSIVE PtrAt(_, _, _, _)
PtrAt(n, key, at, index) ==
    IF at = index THEN <<>>
    ELSE CASE n.type = "full" ->
                IF ReadBit(key, at) = 0
                THEN <<"left">> \o PtrAt(n.left, key, at + 1, index)
                ELSE <<"right">> \o PtrAt(n.right, key, at + 1, index)
           [] n.type = "short" -> <<"child">> \o PtrAt(n.child, key, at + n.count, index)
           [] OTHER -> <<>>

\* n := *cur, the node a pass finds in the slot cur points to.  The slot is
\* memory of the trie that all the calls share, read anew by each pass.
ReadCur(w, t) == Deref(t, PtrAt(t, w.key, 0, w.index))

\* A Get that, at a full node, keeps an empty leaf in the place of the child it
\* does not walk into while it is in its loop, and puts the trie back as it
\* found it when it returns.
ReadLoopWriteHidesSibling(w, t) ==
    LET n == w.cur
    IN  IF w.op # "Get" THEN t
        ELSE IF n.type = "full" /\ ReadBit(w.key, w.index) # OutOfRange
        THEN Assign(t, PtrAt(t, w.key, 0, w.index)
                          \o (IF ReadBit(w.key, w.index) = 0 THEN <<"right">> ELSE <<"left">>),
                    Leaf(<<>>))
        ELSE IF n.type = "short" /\ ~PathPanics(w.key, w.index, n)
                /\ GetPathMatches(w.key, w.index, n)
        THEN t
        ELSE w.root0

\* The trie t after one pass of GetLoop or of ProveLoop, or after Hash, of the
\* call w: the pass assigns to cur, index, shortCounts and hashValues, which
\* are the call's own, and nothing through cur.
ReadLoopWrite(w, t) == t

\* The trie t after one pass of PutLoop of the call w: what the pass assigns
\* through cur and remain.  A split leaves nil on the key's side of the new
\* full node, and the short node for the rest of the key has a nil child, for
\* the next pass to fill.
PutLoopWrite(w, t) ==
    LET n   == w.cur
        cur == PtrAt(t, w.key, 0, w.index)
    IN  CASE n.type = "short" ->
                LET commonCount == CommonCount(w.key, w.index, n.path, n.count)
                    remain      == RemainNode(n, commonCount)
                    splitNode   == IF ReadBit(n.path, commonCount) = 1
                                   THEN Full(Nil, remain)
                                   ELSE Full(remain, Nil)
                IN  IF commonCount < 0 \/ commonCount = n.count THEN t
                    ELSE Assign(t, cur,
                                IF commonCount > 0
                                THEN Short(commonCount,
                                           CopyBits(w.key, w.index, commonCount), splitNode)
                                ELSE splitNode)
          [] n.type = "leaf" -> Assign(t, cur, Leaf(WalkVal))
          [] n.type = "nil" ->
                LET totalCount == Len(w.key) * 8
                    finalCount == totalCount - w.index
                IN  IF w.index = totalCount THEN Assign(t, cur, Leaf(WalkVal))
                    ELSE Assign(t, cur,
                                Short(finalCount, CopyBits(w.key, w.index, finalCount), Nil))
          [] OTHER -> t

\* One pass of DelLoop; the pass that finds the leaf goes on to the code after
\* the loop, which has no loop of its own but merge's.
DelLoopStep(w) ==
    LET n == w.cur
    IN  CASE n.type = "full" ->
                IF ReadBit(w.key, w.index) = OutOfRange
                THEN Done(w, [found |-> FALSE, panic |-> TRUE])
                ELSE Advance(w, IF ReadBit(w.key, w.index) = 0 THEN n.left ELSE n.right, 1)
          [] n.type = "short" ->
                IF PathPanics(w.key, w.index, n) THEN Done(w, [found |-> FALSE, panic |-> TRUE])
                ELSE IF ~DelPathMatches(w.key, w.index, n)
                THEN Done(w, [found |-> FALSE, panic |-> FALSE])
                ELSE Advance(w, n.child, n.count)
          [] n.type = "leaf" -> Done(w, [found |-> TRUE, panic |-> FALSE])
          [] n.type = "nil" -> Done(w, [found |-> FALSE, panic |-> FALSE])

\* The call w after its next step on the tree (t, kl).
StepOf(w, t, kl) ==
    IF w.state = "entry" THEN Entry(w, t, kl)
    ELSE CASE w.op = "Get"   -> GetLoopStep(w)
           [] w.op = "Hash"  -> HashStep(w)
           [] w.op = "Prove" -> ProveLoopStep(w)
           [] w.op = "Put"   -> PutLoopStep(w)
           [] w.op = "Del"   -> DelLoopStep(w)

InFlight(c) == walk[c].state \in {"entry", "run"}

InitWalk ==
    /\ keyLength = 0
    /\ root = Nil
    /\ stored = <<>>
    /\ puts = <<>>
    /\ proof = NoProof
    /\ expected = <<>>
    /\ verdict = "none"
    /\ held = NoSlice
    /\ walk = [c \in Callers |-> Idle]
    /\ segment = NoSegment

\* Caller c calls Get(key), Prove(key) or Hash(): no Put or Del is in flight.
StartRead(c, op, key) ==
    /\ keyLength > 0
    /\ walk[c].state = "idle"
    /\ \A d \in Callers : walk[d].op \notin Writers
    /\ walk' = [walk EXCEPT ![c] = [Idle EXCEPT !.op = op, !.state = "entry",
                                               !.key = IF op = "Hash" THEN <<>> ELSE key,
                                               !.root0 = root, !.rootAfter = root]]
    /\ UNCHANGED <<keyLength, root, stored, puts, proof, expected, verdict, held, segment>>

\* Caller c calls Put(key, WalkVal) or Del(key): no other call is in flight.
\* rootAfter is the root the call leaves when it returns.
StartWrite(c, op, key) ==
    /\ keyLength > 0
    /\ \A d \in Callers : walk[d].state = "idle"
    /\ walk' = [walk EXCEPT ![c] =
                    [Idle EXCEPT !.op = op, !.state = "entry", !.key = key, !.root0 = root,
                                 !.rootAfter = IF op = "Put"
                                               THEN PutOf(root, keyLength, key, WalkVal).node
                                               ELSE DelOf(root, keyLength, key).node]]
    /\ UNCHANGED <<keyLength, root, stored, puts, proof, expected, verdict, held, segment>>

\* What the calls made so far say the trie holds, after the step that took the
\* call from w to w2.
StoredAfter(w, w2, st) ==
    IF w.op \notin Writers \/ w2.state # "done" THEN st
    ELSE IF w.op = "Put"
    THEN IF w2.result.err = NoError
         THEN [st EXCEPT ![w.key] = [state |-> "put", val |-> WalkVal]]
         ELSE st
    ELSE [st EXCEPT ![w.key] = IF @.state = "never" THEN @ ELSE Deleted]

\* The call of caller c as its next step finds it: a pass of a loop begins by
\* reading the slot cur points to.
AtPass(c) ==
    IF walk[c].state = "run" THEN [walk[c] EXCEPT !.cur = ReadCur(walk[c], root)]
    ELSE walk[c]

\* The next step of caller c's call.  A pass of PutLoop writes to the trie in
\* the pass itself; a Del writes in its last pass, which takes the leaf out and
\* cleans up, and leaves the root rootAfter; Get, Prove and Hash write what
\* ReadLoopWrite says.
WalkStep(c) ==
    /\ InFlight(c)
    /\ \E w \in {AtPass(c)} :
        /\ walk' = [walk EXCEPT ![c] = StepOf(w, root, keyLength)]
        /\ root' = IF w.op = "Put" /\ w.state = "run"
                   THEN PutLoopWrite(w, root)
                   ELSE IF w.op \in Readers
                   THEN IF w.state = "run" THEN ReadLoopWrite(w, root) ELSE root
                   ELSE IF walk'[c].state = "done" THEN w.rootAfter
                   ELSE root
        /\ stored' = StoredAfter(w, walk'[c], stored)
    /\ UNCHANGED <<keyLength, puts, proof, expected, verdict, held, segment>>

\* Caller c takes the result of its call.
Return(c) ==
    /\ walk[c].state = "done"
    /\ walk' = [walk EXCEPT ![c] = Idle]
    /\ UNCHANGED <<keyLength, root, stored, puts, proof, expected, verdict, held, segment>>

NextWalk ==
    \/ \E kl \in WalkKeyLengths : NewTree(kl)
    \/ \E c \in Callers, op \in Readers, key \in WalkKeys(keyLength) : StartRead(c, op, key)
    \/ \E c \in Callers, op \in Writers, key \in WalkKeys(keyLength) : StartWrite(c, op, key)
    \/ \E c \in Callers : WalkStep(c)
    \/ \E c \in Callers : Return(c)

SpecWalk == InitWalk /\ [][NextWalk]_vars

\* Every caller's call in flight gets its next step.
SpecWalkFair == SpecWalk /\ \A c \in Callers : WF_vars(WalkStep(c))

\* What a Get, Prove or Hash call returns when it runs alone on the trie t.
RunAlone(w, t) ==
    CASE w.op = "Get"   -> Get(t, keyLength, w.key)
      [] w.op = "Prove" -> Prove(t, keyLength, w.key)
      [] w.op = "Hash"  -> Hash(t)

C26_CallsTerminate ==
    /\ [][\A c \in Callers :
            (walk[c].state = "run" /\ walk'[c] # walk[c]) =>
                \/ walk'[c].state = "done"
                \/ /\ walk'[c].index > walk[c].index
                   /\ walk'[c].index <= 8 * keyLength]_vars
    /\ \A c \in Callers : InFlight(c) ~> (walk[c].state = "done")

\* A Put that split a short node and a Del that found its key have returned.
C26_Witness ==
    /\ DOMAIN walk = Callers
    /\ \E c \in Callers :
        /\ walk[c].op = "Put" /\ walk[c].state = "done"
        /\ walk[c].root0.type = "short" /\ root.type = "full"
        /\ walk[c].index = 8 * keyLength

----------------------------------------------------------------------------
(* The two bytes written for a short node's count when the node is hashed *)

\* The key lengths of the trees SpecEnc constructs.
EncKeyLengths == {1, 2}

\* The counts a short node may have: 1 .. 8 * maxKeyLength.
SegmentCounts == 1..65536

\* The count that two bytes stand for.
DecodeLength(b) == IF b = <<0, 0>> THEN 65536 ELSE b[1] * 256 + b[2]

\* The counts of the short nodes of the subtree n.
RECURSIVE ShortCountsOf(_)
ShortCountsOf(n) ==
    CASE n.type = "short" -> {n.count} \cup ShortCountsOf(n.child)
      [] n.type = "full"  -> ShortCountsOf(n.left) \cup ShortCountsOf(n.right)
      [] OTHER -> {}

\* serializedPathSegmentLength(l) for any count l, before a tree is constructed.
EncodeLength(l) ==
    /\ keyLength = 0
    /\ segment = NoSegment
    /\ segment' = [count |-> l, bytes |-> serializedPathSegmentLength(l)]
    /\ UNCHANGED <<keyLength, root, stored, puts, proof, expected, verdict, held, walk>>

NewTreeEnc(kl) == segment = NoSegment /\ NewTree(kl)

\* Hash() reaches a short node of the trie and writes the bytes of its count.
HashShort(l) ==
    /\ l \in ShortCountsOf(root)
    /\ segment' = [count |-> l, bytes |-> serializedPathSegmentLength(l)]
    /\ UNCHANGED <<keyLength, root, stored, puts, proof, expected, verdict, held, walk>>

NextEnc ==
    \/ segment = NoSegment /\ \E l \in SegmentCounts : EncodeLength(l)
    \/ \E kl \in EncKeyLengths : NewTreeEnc(kl)
    \/ \E key \in Keys(keyLength), val \in Vals : Put(key, val)
    \/ \E key \in Keys(keyLength) : Del(key)
    \/ \E l \in 0..(8 * keyLength) : HashShort(l)

SpecEnc == Init /\ [][NextEnc]_vars

(* C27: the two bytes written for a count n in 1..65536 are n mod 65536 in    *)
(* big-endian (65536 as 0x00 0x00); no two counts of that range get the same  *)
(* bytes (the bytes give the count back); and no short node of a trie has     *)
(* count 0.                                                                   *)
C27_LengthEncoding ==
    /\ segment # NoSegment =>
        /\ segment.count \in SegmentCounts
        /\ segment.bytes = << (segment.count % 65536) \div 256, (segment.count % 65536) % 256 >>
        /\ DecodeLength(segment.bytes) = segment.count
    /\ 0 \notin ShortCountsOf(root)

C27_Witness ==
    /\ segment.count = 65536
    /\ segment.bytes = <<0, 0>>

----------------------------------------------------------------------------
(* The slot Put fills and the slot Del empties *)

\* The bit index at which the walk of Put(key) from n reaches an absent slot:
\* the root of an empty trie, or the branch of the full node a split makes; -1
\* when the walk ends at the key's leaf.
RECURSIVE AbsentIndex(_, _, _)
AbsentIndex(n, key, index) ==
    CASE n.type = "nil"  -> index
      [] n.type = "full" ->
            AbsentIndex(IF ReadBit(key, index) = 0 THEN n.left ELSE n.right, key, index + 1)
      [] n.type = "short" ->
            LET cc == CommonCount(key, index, n.path, n.count)
            IN  IF cc = n.count THEN AbsentIndex(n.child, key, index + n.count)
                ELSE index + cc + 1
      [] OTHER -> -1

\* The node in the slot that key's walk from n reaches at bit index target.
RECURSIVE SlotAt(_, _, _, _)
SlotAt(n, key, index, target) ==
    IF index = target THEN n
    ELSE CASE n.type = "full" ->
                SlotAt(IF ReadBit(key, index) = 0 THEN n.left ELSE n.right,
                       key, index + 1, target)
           [] n.type = "short" -> SlotAt(n.child, key, index + n.count, target)
           [] OTHER -> Nil

\* Node s is a short node of count total - i that holds bits i .. total-1 of
\* the key, over the leaf of val.
IsFinalShort(s, key, val, i, total) ==
    /\ s.type = "short"
    /\ s.count = total - i
    /\ Len(s.path) = (total - i + 7) \div 8
    /\ \A j \in 0..(total - i - 1) : ReadBit(s.path, j) = ReadBit(key, i + j)
    /\ s.child = Leaf(val)

(* C31: when Put(key, val) reaches an absent slot at bit index i, Put returns *)
(* (false, nil); for i = 8*keyLength the slot then holds a leaf of val, and   *)
(* for i < 8*keyLength a short node of count 8*keyLength - i that holds key   *)
(* bits i .. 8*keyLength-1 over that leaf; a Put into an empty trie makes the *)
(* root the short node of count 8*keyLength with the key as path over the     *)
(* leaf of val.                                                               *)
C31_PutAbsentSlot ==
    HasTree =>
        \A k \in Keys(keyLength), v \in Vals :
            LET total == 8 * keyLength
                i     == AbsentIndex(root, k, 0)
                r     == PutOf(root, keyLength, k, v)
                s     == SlotAt(r.node, k, 0, i)
            IN  /\ PutLoop(Nil, k, v, total) =
                        [node |-> Leaf(v), replaced |-> FALSE, panic |-> FALSE]
                /\ i >= 0 =>
                    /\ ~r.replaced /\ r.err = NoError /\ ~r.panic
                    /\ IF i = total THEN s = Leaf(v)
                       ELSE IsFinalShort(s, k, v, i, total)
                /\ root = Nil => r.node = Short(total, k, Leaf(v))

\* A key whose walk leaves the root's short path: the absent slot is the branch
\* of the new full node, past the first bit and before the last.
C31_Witness ==
    /\ HasTree
    /\ root.type = "short"
    /\ \E k \in Keys(keyLength), v \in Vals :
        LET i == AbsentIndex(root, k, 0)
            r == PutOf(root, keyLength, k, v)
        IN  /\ 1 < i /\ i < 8 * keyLength
            /\ ~r.replaced
            /\ IsFinalShort(SlotAt(r.node, k, 0, i), k, v, i, 8 * keyLength)

\* Whether the walk of key from n to its leaf passes a full node.
RECURSIVE FullBelow(_, _, _)
FullBelow(n, key, index) ==
    CASE n.type = "full"  -> TRUE
      [] n.type = "short" -> FullBelow(n.child, key, index + n.count)
      [] OTHER -> FALSE

\* The path of short node n as a sequence of bits, and the buffer of a sequence
\* of bits.
PathBits(n) == [i \in 1..n.count |-> ReadBit(n.path, i - 1)]

PackBits(bits) ==
    [j \in 1..((Len(bits) + 7) \div 8) |->
        LET B(b) == IF 8 * (j - 1) + b + 1 <= Len(bits)
                    THEN bits[8 * (j - 1) + b + 1] * Pow2(7 - b) ELSE 0
        IN  B(0) + B(1) + B(2) + B(3) + B(4) + B(5) + B(6) + B(7)]

\* The short node that stands for a full node whose child on side b, s, is the
\* one left, under the path bits `above` of a short parent (none: <<>>).
Recanonical(above, b, s) ==
    LET bits == above \o <<b>> \o (IF s.type = "short" THEN PathBits(s) ELSE <<>>)
    IN  Short(Len(bits), PackBits(bits), IF s.type = "short" THEN s.child ELSE s)

\* The subtree n once the leaf of key is removed: the nearest full node above
\* the leaf, with its short parent when it has one, gives way to Recanonical
\* and nothing else changes; without a full node above the leaf nothing is
\* left.
RECURSIVE WithCollapse(_, _, _)
WithCollapse(n, key, index) ==
    CASE n.type = "full" ->
            LET bit  == ReadBit(key, index)
                mine == IF bit = 0 THEN n.left ELSE n.right
                s    == IF bit = 0 THEN n.right ELSE n.left
            IN  IF ~FullBelow(mine, key, index + 1) THEN Recanonical(<<>>, 1 - bit, s)
                ELSE IF bit = 0
                THEN [n EXCEPT !.left = WithCollapse(n.left, key, index + 1)]
                ELSE [n EXCEPT !.right = WithCollapse(n.right, key, index + 1)]
      [] n.type = "short" ->
            IF n.child.type # "full" THEN Nil
            ELSE LET bit  == ReadBit(key, index + n.count)
                     mine == IF bit = 0 THEN n.child.left ELSE n.child.right
                     s    == IF bit = 0 THEN n.child.right ELSE n.child.left
                 IN  IF ~FullBelow(mine, key, index + n.count + 1)
                     THEN Recanonical(PathBits(n), 1 - bit, s)
                     ELSE [n EXCEPT !.child = WithCollapse(n.child, key, index + n.count)]
      [] OTHER -> Nil

(* C32: a Del that finds its key returns true and leaves the trie with the    *)
(* nearest full node F above the removed leaf replaced by one short node: its *)
(* path is b (0 when the child of F left over, S, is the left one, 1 when the *)
(* right one) followed by S's path when S is a short node, its child S's      *)
(* child then and S otherwise; when F's parent is a short node, the parent's  *)
(* path comes before b and the one short node stands in the parent's slot;    *)
(* nothing else changes, no short node is left with a short child, and when   *)
(* no full node is above the leaf the root is nil.                            *)
C32_DelRecanonicalizes ==
    HasTree =>
        \A k \in PresentKeys :
            LET r == DelOf(root, keyLength, k)
            IN  /\ r.found /\ ~r.panic
                /\ r.node = WithCollapse(root, k, 0)
                /\ WellMerged(r.node)
                /\ ~FullBelow(root, k, 0) => r.node = Nil

\* The full node under the root's short node loses a leaf and the child left
\* over is a short node: parent, bit and child merge into one short node.
C32_Witness ==
    /\ HasTree
    /\ root.type = "short" /\ root.child.type = "full"
    /\ \E k \in PresentKeys :
        LET r == DelOf(root, keyLength, k).node
            s == IF ReadBit(k, root.count) = 0 THEN root.child.right ELSE root.child.left
        IN  /\ s.type = "short" /\ s.child.type = "full"
            /\ r.type = "short" /\ r.count = root.count + 1 + s.count
            /\ r.child = s.child
            /\ r = WithCollapse(root, k, 0)

----------------------------------------------------------------------------
(* Verify against the walk of Prove *)

\* The non-leaf nodes on the walk from n to key's leaf, from the root down,
\* each with the number of key bits consumed above it.
RECURSIVE NodesOnPath(_, _, _)
NodesOnPath(n, key, index) ==
    CASE n.type = "full" ->
            <<[node |-> n, index |-> index]>>
                \o NodesOnPath(IF ReadBit(key, index) = 0 THEN n.left ELSE n.right,
                               key, index + 1)
      [] n.type = "short" ->
            <<[node |-> n, index |-> index]>> \o NodesOnPath(n.child, key, index + n.count)
      [] OTHER -> <<>>

\* Verify's loop on proof p once the entries of ShortCounts from the last down
\* to entry i (from 1) are done.
VerifyDownTo(p, i) ==
    VerifyLoop([p EXCEPT !.ShortCounts = SubSeq(p.ShortCounts, i, Len(p.ShortCounts))],
               Len(p.ShortCounts) - i + 1, p.HashValue, Len(p.InterimHashes),
               Len(p.InterimHashes) + SumCounts(p.ShortCounts))

(* C33: for the proof Prove returns for a present key, once Verify has done   *)
(* the entries of ShortCounts from the last down to entry i, currentHash is   *)
(* the digest of the i-th node of Prove's walk and pathIndex is the number of *)
(* key bits consumed above that node.                                         *)
C33_VerifyReplaysWalk ==
    HasTree =>
        \A k \in PresentKeys :
            LET p     == Prove(root, keyLength, k).proof
                nodes == NodesOnPath(root, k, 0)
            IN  /\ Len(p.ShortCounts) = Len(nodes)
                /\ \A i \in DOMAIN nodes :
                    LET r == VerifyDownTo(p, i)
                    IN  /\ ~r.panic
                        /\ r.currentHash = NodeHash(nodes[i].node)
                        /\ r.pathIndex = nodes[i].index

----------------------------------------------------------------------------
(* Verify against the digest the proof itself gives *)

\* The proofs of ProofInputs, each with an expected root that is one of
\* ExpectedInputs or the digest Verify's loop computes from that proof.
InitAccept ==
    /\ keyLength = 0
    /\ root = Nil
    /\ stored = <<>>
    /\ puts = <<>>
    /\ proof \in ProofInputs
    /\ expected \in ExpectedInputs \cup { VerifyDownTo(proof, 1).currentHash }
    /\ verdict = "none"
    /\ held = NoSlice
    /\ walk = NoWalk
    /\ segment = NoSegment

NextAccept == VerifyCall

SpecAccept == InitAccept /\ [][NextAccept]_vars

\* By how many entries InterimHashes is longer than ShortCounts has zeros.
ExtraHashes(p) == Len(p.InterimHashes) - ZeroCount(p.ShortCounts)

(* C34: Verify returns true exactly when its loop gets through all entries of *)
(* ShortCounts and then pathIndex = 0 and the digest computed equals the      *)
(* expected root; the pathIndex the loop ends with is the number of           *)
(* InterimHashes minus the number of zero entries of ShortCounts, so a proof  *)
(* with more InterimHashes than zero entries is never accepted, and Verify    *)
(* returns false for it whenever the loop gets through, also when the digest  *)
(* computed equals the expected root.                                         *)
C34_AcceptIff ==
    verdict # "none" =>
        LET end == VerifyDownTo(proof, 1)
        IN  /\ verdict = "true" <=>
                (~end.panic /\ end.pathIndex = 0 /\ end.currentHash = expected)
            /\ ~end.panic => end.pathIndex = ExtraHashes(proof)
            /\ ExtraHashes(proof) > 0 =>
                /\ verdict # "true"
                /\ ~end.panic => verdict = "false"

\* Verify has returned false for a proof with one hash too many whose digest
\* is the expected root.
C34_Witness ==
    /\ verdict = "false"
    /\ ExtraHashes(proof) > 0
    /\ proof.ShortCounts # <<>>
    /\ ~VerifyDownTo(proof, 1).panic
    /\ VerifyDownTo(proof, 1).currentHash = expected

----------------------------------------------------------------------------
(* The calls that read the trie.  The caller keeps what each call returned:  *)
(* the slice of Get in held, the proof of Prove in proof, the digest of Hash *)
(* in expected, the boolean of Verify in verdict.                            *)

\* The key lengths of the trees SpecRead constructs.
ReadKeyLengths == {1, 2}

\* The keys of the calls: the keys of WalkKeys, the empty key and a key one
\* byte longer than a key of the trie.
ReadKeys(kl) == WalkKeys(kl) \cup { <<>>, Append(KeyOf(kl, 1), 0) }

\* Get that takes the leaf it returns out of the trie.
GetCallUnlinksLeaf(key) ==
    /\ keyLength > 0
    /\ LET g == Get(root, keyLength, key)
       IN  /\ ~g.panic
           /\ held' = [key |-> key, bytes |-> g.val, shared |-> g.found]
    /\ root' = DelOf(root, keyLength, key).node
    /\ UNCHANGED <<keyLength, stored, puts, proof, expected, verdict, walk, segment>>

\* v, ok := Tree.Get(key).  The slice returned for a key that is found is the
\* leaf's val itself (return n.val, true): it shares the leaf's array.
GetCall(key) ==
    /\ keyLength > 0
    /\ LET g == Get(root, keyLength, key)
       IN  /\ ~g.panic
           /\ held' = [key |-> key, bytes |-> g.val, shared |-> g.found]
    /\ UNCHANGED <<keyLength, root, stored, puts, proof, expected, verdict, walk, segment>>

\* p, ok := Tree.Prove(key), for the calls that return; p is nil when ok is
\* false.
ProveCall(key) ==
    /\ keyLength > 0
    /\ LET p == Prove(root, keyLength, key)
       IN  /\ ~p.panic
           /\ proof' = p.proof
    /\ UNCHANGED <<keyLength, root, stored, puts, expected, verdict, held, walk, segment>>

\* h := Tree.Hash()
HashCall ==
    /\ keyLength > 0
    /\ expected' = Hash(root)
    /\ UNCHANGED <<keyLength, root, stored, puts, proof, verdict, held, walk, segment>>

\* ok := p.Verify(h) with the proof and the digest the caller keeps, for the
\* calls that return.
VerifyKept ==
    /\ keyLength > 0
    /\ proof # NoProof
    /\ LET r == Verify(proof, expected)
       IN  /\ ~r.panic
           /\ verdict' = IF r.ok THEN "true" ELSE "false"
    /\ UNCHANGED <<keyLength, root, stored, puts, proof, expected, held, walk, segment>>

\* The caller keeps no result of a call.
NoResults == held = NoSlice /\ proof = NoProof /\ expected = <<>> /\ verdict = "none"

\* The caller lets go of the results it keeps.
Forget ==
    /\ ~NoResults
    /\ held' = NoSlice /\ proof' = NoProof /\ expected' = <<>> /\ verdict' = "none"
    /\ UNCHANGED <<keyLength, root, stored, puts, walk, segment>>

\* The caller writes to the trie when it keeps no result of an earlier call.
NextRead ==
    \/ \E kl \in ReadKeyLengths : NewTree(kl)
    \/ NoResults /\ \E key \in WalkKeys(keyLength), val \in Vals : Put(key, val)
    \/ NoResults /\ \E key \in WalkKeys(keyLength) : Del(key)
    \/ \E key \in ReadKeys(keyLength) : GetCall(key)
    \/ \E key \in ReadKeys(keyLength) : ProveCall(key)
    \/ HashCall
    \/ VerifyKept
    \/ Forget

SpecRead == Init /\ [][NextRead]_vars

\* A Get, Prove, Hash or Verify call has returned: the caller has a new result.
ReadReturned ==
    /\ <<held, proof, expected, verdict>>' # <<held, proof, expected, verdict>>
    /\ ~NoResults'

(* C35: a step in which Get, Prove, Hash or Verify returns leaves the trie as *)
(* it was: the same root with the same nodes, counts, paths and leaf values,  *)
(* and the same key length.                                                   *)
C35_ReadsLeaveTrie ==
    [][ReadReturned =>
            /\ root' = root
            /\ keyLength' = keyLength
            /\ Hash(root') = Hash(root)]_vars

\* The caller holds the results of Get, Prove, Hash and Verify on a trie of a
\* short node over a full node, and the trie still gives them.
C35_Witness ==
    /\ HasTree
    /\ root.type = "short" /\ root.child.type = "full"
    /\ held.shared /\ Get(root, keyLength, held.key).val = held.bytes
    /\ proof # NoProof /\ proof = Prove(root, keyLength, proof.Key).proof
    /\ expected = Hash(root)
    /\ verdict = "true"

----------------------------------------------------------------------------
(* What a trie holds, read from its nodes and from its root hash *)

\* The (key, value) pairs of the leaves of subtree n, reached by the key bits
\* `bits`: a short node adds its path, a full node a 0 to the left and a 1 to
\* the right.
RECURSIVE PairsOf(_, _)
PairsOf(n, bits) ==
    CASE n.type = "leaf"  -> { [key |-> PackBits(bits), val |-> n.val] }
      [] n.type = "short" -> PairsOf(n.child, bits \o PathBits(n))
      [] n.type = "full"  -> PairsOf(n.left, Append(bits, 0))
                                \cup PairsOf(n.right, Append(bits, 1))
      [] OTHER -> {}

\* The same pairs read from a digest: with a collision-free hash a digest
\* stands for exactly one sequence of inputs (tag, length bytes, path, child
\* digests, value).
RECURSIVE DigestPairs(_, _)
DigestPairs(h, bits) ==
    IF h = <<>> THEN {}
    ELSE CASE h[1] = "leaf"  -> { [key |-> PackBits(bits), val |-> h[2]] }
           [] h[1] = "short" ->
                DigestPairs(h[4], bits \o [i \in 1..DecodeLength(h[2]) |-> ReadBit(h[3], i - 1)])
           [] h[1] = "full"  -> DigestPairs(h[2], Append(bits, 0))
                                   \cup DigestPairs(h[3], Append(bits, 1))

\* The pairs the calls made so far leave in the trie.
HeldPairs == { [key |-> k, val |-> stored[k].val] : k \in PresentKeys }

(* C36: after any sequence of Put and Del, the (key, value) pairs a trie      *)
(* holds can be read back from its root subtree, and from its root hash when  *)
(* the hash is collision-free; so two tries of one key length that hold       *)
(* different sets of pairs differ in their root subtree and in their root     *)
(* hash.                                                                      *)
C36_CanonicalInjective ==
    HasTree =>
        /\ PairsOf(root, <<>>) = HeldPairs
        /\ DigestPairs(Hash(root), <<>>) = HeldPairs

\* A trie of two keys with different values after a Del; putting the other
\* value for one of the keys gives another root and another root hash.
C36_Witness ==
    /\ HasTree
    /\ \E k \in Keys(keyLength) : stored[k].state = "deleted"
    /\ \E k1, k2 \in PresentKeys : stored[k1].val # stored[k2].val
    /\ DigestPairs(Hash(root), <<>>) = HeldPairs
    /\ \A k \in PresentKeys, v \in Vals :
        v # stored[k].val =>
            /\ PutOf(root, keyLength, k, v).node # root
            /\ Hash(PutOf(root, keyLength, k, v).node) # Hash(root)

----------------------------------------------------------------------------
(* The number of nodes of each kind *)

\* The number of nodes of type ty in the subtree n.
RECURSIVE NodeCount(_, _)
NodeCount(n, ty) ==
    (IF n.type = ty THEN 1 ELSE 0)
    + CASE n.type = "short" -> NodeCount(n.child, ty)
        [] n.type = "full"  -> NodeCount(n.left, ty) + NodeCount(n.right, ty)
        [] OTHER -> 0

(* C37: after any sequence of Put and Del, a trie that holds n >= 1 keys has  *)
(* n leaf nodes and n - 1 full nodes, and the dummy node of Del is not one of *)
(* its nodes.                                                                 *)
C37_NodeCounts ==
    (HasTree /\ PresentKeys # {}) =>
        /\ NodeCount(root, "leaf") = Cardinality(PresentKeys)
        /\ NodeCount(root, "full") = Cardinality(PresentKeys) - 1
        /\ NodeCount(root, "dummy") = 0

\* Three keys are left after a Del that took a full node away.
C37_Witness ==
    /\ HasTree
    /\ \E k \in Keys(keyLength) : stored[k].state = "deleted"
    /\ Cardinality(PresentKeys) = 3
    /\ NodeCount(root, "leaf") = 3
    /\ NodeCount(root, "full") = 2

----------------------------------------------------------------------------
(* Put and then Del of a key the trie does not hold *)

(* C38: for a reachable trie T and a key k of the trie's key length that T    *)
(* does not hold, Put(k, v) returns (false, nil), Del(k) on the result        *)
(* returns true, and the trie is then T again, node for node, with T's root   *)
(* hash.                                                                      *)
C38_PutThenDel ==
    HasTree =>
        \A k \in Keys(keyLength) \ PresentKeys, v \in Vals :
            LET p == PutOf(root, keyLength, k, v)
                d == DelOf(p.node, keyLength, k)
            IN  /\ ~p.replaced /\ p.err = NoError /\ ~p.panic
                /\ d.found /\ ~d.panic
                /\ d.node = root
                /\ Hash(d.node) = Hash(root)

\* A Put that splits the root's short node, which stands over a full node,
\* undone by the Del that merges the pieces again.
C38_Witness ==
    /\ HasTree
    /\ root.type = "short" /\ root.child.type = "full"
    /\ \E k \in Keys(keyLength) \ PresentKeys, v \in Vals :
        LET p == PutOf(root, keyLength, k, v).node
        IN  /\ p.type = "short" /\ p.count < root.count
            /\ DelOf(p, keyLength, k).found
            /\ DelOf(p, keyLength, k).node = root

----------------------------------------------------------------------------
(* The slice Get returns, in the caller's hands *)

\* The calls of SpecBuf and Get: the slice the caller holds is the buffer it
\* passed to Put last or the slice Get returned last.
NextGet ==
    \/ \E kl \in BufKeyLengths : NewTree(kl)
    \/ \E key \in Keys(keyLength), b \in Vals : PutFrom(key, b)
    \/ \E key \in Keys(keyLength) : GetCall(key)
    \/ \E b \in Vals : Overwrite(b)
    \/ \E key \in Keys(keyLength) : DelBuf(key)

SpecGet == Init /\ [][NextGet]_vars

\* The caller has written other bytes over the slice it holds.
CallerWrote ==
    /\ stored' = stored
    /\ held'.key = held.key
    /\ held'.shared = held.shared
    /\ held'.bytes # held.bytes

(* C39: a write by the caller to the bytes of the slice Get(key) returned     *)
(* changes neither what Get returns for any key afterwards nor the root hash. *)
C39_GetResultIsolated ==
    [][CallerWrote =>
            /\ \A k \in Keys(keyLength) : Get(root', keyLength, k) = Get(root, keyLength, k)
            /\ Hash(root') = Hash(root)]_vars

====
